---- MODULE Spec2Model ----
(***************************************************************************)
(* Attestation processing of the beacon chain (hard fork 1 participation   *)
(* flags): beacon-chain/core/blocks/attestation.go, on top of the state    *)
(* container getters of beacon-chain/state.                                *)
(*                                                                         *)
(* A BeaconState is a Go object reached through a pointer: the variable    *)
(* `state` is the content of that one object, `last` is the record of the  *)
(* last call made on it (its input, what the object read before the call   *)
(* and what the call returned).                                            *)
(***************************************************************************)
EXTENDS Integers, Sequences, FiniteSets, TLC

VARIABLES state, last, calls

\* The state container seen from outside (beacon-chain/state): `container` is
\* the BeaconState wrapper's pointer to the inner state and what it points
\* to, `held` is the value the last accessor call handed to its caller,
\* `lock` is the wrapper's sync.RWMutex, `reader` the position of a goroutine
\* inside an accessor and `writer` the position of one inside a mutator.
VARIABLES container, held, lock, reader, writer

\* The generated SSZ code (proto/beacon/p2p/v1): `ssz` holds one record, the
\* buffer it was encoded to or that arrived, and the results of the calls
\* made on them.
VARIABLES ssz

vars == <<state, last, calls, container, held, lock, reader, writer, ssz>>

(***************************************************************************)
(* Bounds of the model.                                                    *)
(***************************************************************************)
\* number of validators in the registry
NumValidators == 5
\* number of calls made on one state object in one behaviour
MaxCalls == 2

(***************************************************************************)
(* Configuration (params.BeaconConfig()), scaled down.                     *)
(***************************************************************************)
SlotsPerEpoch == 4
MinAttestationInclusionDelay == 1
SlotsPerHistoricalRoot == 16
MaxCommitteesPerSlot == 2
TargetCommitteeSize == 1
MaxValidatorsPerCommittee == 8
TimelyHeadFlag == 1
TimelySourceFlag == 2
TimelyTargetFlag == 4
TimelyHeadNumerator == 12
TimelySourceNumerator == 12
TimelyTargetNumerator == 32
RewardDenominator == 64
ProposerRewardQuotient == 8
BaseRewardFactor == 64
BaseRewardsPerEpoch == 4
MaxEffectiveBalance == 32
EffectiveBalanceIncrement == 1
\* uint64 arithmetic wraps; it is modelled modulo the largest power of two the
\* model checker's integers hold (balances are scaled to units of 10^9 Gwei,
\* which shrinks every value by more than the width is shrunk)
Uint64Mod == 1073741824

(***************************************************************************)
(* Plain arithmetic and bit helpers.                                       *)
(***************************************************************************)
Min(a, b) == IF a <= b THEN a ELSE b

Max(a, b) == IF a >= b THEN a ELSE b

\* mathutil.IntegerSquareRoot: the largest r with r * r <= n
IntegerSquareRoot(n) == CHOOSE r \in 0..n : r * r <= n /\ (r + 1) * (r + 1) > n

RECURSIVE BitAnd(_, _)
BitAnd(a, b) ==
  IF a = 0 \/ b = 0 THEN 0
  ELSE (IF a % 2 = 1 /\ b % 2 = 1 THEN 1 ELSE 0) + 2 * BitAnd(a \div 2, b \div 2)

RECURSIVE BitOr(_, _)
BitOr(a, b) ==
  IF a = 0 THEN b
  ELSE IF b = 0 THEN a
  ELSE (IF a % 2 = 1 \/ b % 2 = 1 THEN 1 ELSE 0) + 2 * BitOr(a \div 2, b \div 2)

\* helpers.HasValidatorFlag: flag & flagPosition == flagPosition
HasValidatorFlag(flag, flagPosition) == BitAnd(flag, flagPosition) = flagPosition

\* helpers.AddValidatorFlag: flag | flagPosition
AddValidatorFlag(flag, flagPosition) == BitOr(flag, flagPosition)

\* Go slices are indexed from 0, sequences from 1
At(seq, i) == seq[i + 1]

\* variant: the write adds an element instead of replacing one
SetAt_Append(seq, i, v) == Append(seq, v)

SetAt(seq, i, v) == [seq EXCEPT ![i + 1] = v]

(***************************************************************************)
(* Results of fallible calls: err = "none" is Go's nil error.              *)
(***************************************************************************)
Ok(v) == [err |-> "none", val |-> v]

Err(e) == [err |-> e, val |-> 0]

(***************************************************************************)
(* State container getters (beacon-chain/state).                           *)
(***************************************************************************)
\* BeaconState.Slot
Slot(st) == st.slot

\* variant: hands out the previous justified checkpoint
CurrentJustifiedCheckpoint_Previous(st) == st.previousJustifiedCheckpoint

\* BeaconState.CurrentJustifiedCheckpoint: a copy of the checkpoint
CurrentJustifiedCheckpoint(st) == st.currentJustifiedCheckpoint

\* BeaconState.PreviousJustifiedCheckpoint: a copy of the checkpoint
PreviousJustifiedCheckpoint(st) == st.previousJustifiedCheckpoint

\* BeaconState.CurrentEpochParticipation: the bytes are copied into a fresh
\* slice, so the slice handed out shares no storage with the state
\* variant: hands out a zeroed array instead of a copy of the state's bytes
CurrentEpochParticipation_Fresh(st) ==
  [bytes |-> [i \in 1..Len(st.currentEpochParticipation) |-> 0],
   shared |-> FALSE]

CurrentEpochParticipation(st) ==
  [bytes |-> st.currentEpochParticipation, shared |-> FALSE]

\* variant: hands out the state's own slice instead of a copy
PreviousEpochParticipation_Alias(st) ==
  [bytes |-> st.previousEpochParticipation, shared |-> TRUE]

\* BeaconState.PreviousEpochParticipation: likewise a fresh copy
PreviousEpochParticipation(st) ==
  [bytes |-> st.previousEpochParticipation, shared |-> FALSE]

\* BeaconState.ValidatorAtIndexReadOnly
ValidatorAtIndexReadOnly(st, idx) ==
  IF Len(st.validators) <= idx THEN Err("IndexOutOfRange")
  ELSE Ok(At(st.validators, idx))

\* BeaconState.BalanceAtIndex
BalanceAtIndex(st, idx) ==
  IF Len(st.balances) <= idx THEN Err("IndexOutOfRange")
  ELSE Ok(At(st.balances, idx))

(***************************************************************************)
(* Collaborators of the transition that live outside the files at hand:    *)
(* core/helpers, core/epoch, shared/attestationutil.                       *)
(***************************************************************************)
\* helpers.SlotToEpoch
SlotToEpoch(slot) == slot \div SlotsPerEpoch

\* helpers.StartSlot
StartSlot(epoch) == epoch * SlotsPerEpoch

\* helpers.CurrentEpoch
CurrentEpoch(st) == SlotToEpoch(Slot(st))

\* helpers.PrevEpoch: the genesis epoch is its own previous epoch
PrevEpoch(st) == IF CurrentEpoch(st) = 0 THEN 0 ELSE CurrentEpoch(st) - 1

\* helpers.ValidateSlotTargetEpoch
ValidateSlotTargetEpoch(data) == SlotToEpoch(data.slot) = data.target.epoch

\* helpers.ActiveValidatorCount: every validator of the registry is active
ActiveValidatorCount(st, epoch) == Ok(Len(st.validators))

\* helpers.SlotCommitteeCount
SlotCommitteeCount(activeValidatorCount) ==
  Max(1, Min(MaxCommitteesPerSlot,
             (activeValidatorCount \div SlotsPerEpoch) \div TargetCommitteeSize))

\* the shuffling of the active validator indices: position k holds validator
\* ShuffledIndex(k, n) (a fixed permutation stands for the seeded shuffle)
ShuffledIndex(k, n) == n - 1 - k

\* helpers.BeaconCommitteeFromState: the committee is a slice of the shuffled
\* active indices, one slice per (slot, committee index) of the epoch
BeaconCommitteeFromState(st, slot, committeeIndex) ==
  LET n == Len(st.validators)
      perSlot == SlotCommitteeCount(n)
      count == perSlot * SlotsPerEpoch
      offset == committeeIndex + (slot % SlotsPerEpoch) * perSlot
      start == (n * offset) \div count
      end == (n * (offset + 1)) \div count
  IN  Ok([k \in 1..(end - start) |-> ShuffledIndex(start + k - 1, n)])

\* helpers.VerifyAttestationBitfieldLengths
VerifyAttestationBitfieldLengths(st, att) ==
  LET committee == BeaconCommitteeFromState(st, att.data.slot, att.data.committeeIndex)
  IN  committee.err = "none" /\ Len(att.aggregationBits) = Len(committee.val)

\* attestationutil.AttestingIndices: the committee members whose bit is set,
\* in committee order
AttestingIndices(bits, committee) ==
  IF Len(bits) # Len(committee) THEN Err("BitfieldLengthMismatch")
  ELSE Ok(SelectSeq(committee,
                    LAMBDA v : \E k \in 1..Len(committee) : committee[k] = v /\ bits[k]))

RECURSIVE SortedSeq(_)
SortedSeq(S) ==
  IF S = {} THEN <<>>
  ELSE LET m == CHOOSE x \in S : \A y \in S : x <= y
       IN  <<m>> \o SortedSeq(S \ {m})

\* attestationutil.ConvertToIndexed: the attesting indices, sorted
ConvertToIndexed(att, committee) ==
  LET idx == AttestingIndices(att.aggregationBits, committee)
  IN  IF idx.err # "none" THEN idx
      ELSE Ok([attestingIndices |->
                 SortedSeq({idx.val[k] : k \in 1..Len(idx.val)}),
               data |-> att.data,
               signature |-> att.signature])

\* attestationutil.IsValidAttestationIndices: not empty, not more than a
\* committee holds, strictly increasing
IsValidAttestationIndices(indexedAtt) ==
  LET indices == indexedAtt.attestingIndices
  IN  /\ Len(indices) > 0
      /\ Len(indices) <= MaxValidatorsPerCommittee
      /\ \A k \in 1..(Len(indices) - 1) : indices[k] < indices[k + 1]

\* attestationutil.CheckPointIsEqual
CheckPointIsEqual(checkPt1, checkPt2) ==
  checkPt1.epoch = checkPt2.epoch /\ checkPt1.root = checkPt2.root

\* helpers.BlockRootAtSlot: the ring buffer holds the roots of the last
\* SlotsPerHistoricalRoot slots before the state's slot
BlockRootAtSlot(st, slot) ==
  IF slot >= Slot(st) \/ Slot(st) > slot + SlotsPerHistoricalRoot
  THEN Err("BlockRootOutOfBounds")
  ELSE Ok(At(st.blockRoots, slot % SlotsPerHistoricalRoot))

\* helpers.BlockRoot: the root at the start slot of the epoch
BlockRoot(st, epoch) == BlockRootAtSlot(st, StartSlot(epoch))

RECURSIVE SumSeq(_)
SumSeq(seq) == IF seq = <<>> THEN 0 ELSE Head(seq) + SumSeq(Tail(seq))

\* helpers.TotalActiveBalance
TotalActiveBalance(st) == Max(EffectiveBalanceIncrement, SumSeq(st.validators))

\* epoch.BaseReward
BaseReward(st, index) ==
  LET val == ValidatorAtIndexReadOnly(st, index)
  IN  IF val.err # "none" THEN val
      ELSE Ok(((val.val * BaseRewardFactor)
                 \div IntegerSquareRoot(TotalActiveBalance(st)))
                 \div BaseRewardsPerEpoch)

\* helpers.BeaconProposerIndex: the proposer of the state's slot, drawn from
\* the active validators
BeaconProposerIndex(st) ==
  IF Len(st.validators) = 0 THEN Err("NoActiveValidators")
  ELSE Ok(Slot(st) % Len(st.validators))

\* BeaconState.SetCurrentParticipationBits
SetCurrentParticipationBits(st, val) ==
  Ok([st EXCEPT !.currentEpochParticipation = val])

\* BeaconState.SetPreviousParticipationBits
SetPreviousParticipationBits(st, val) ==
  Ok([st EXCEPT !.previousEpochParticipation = val])

\* helpers.IncreaseBalance
IncreaseBalance(st, idx, delta) ==
  LET bal == BalanceAtIndex(st, idx)
  IN  IF bal.err # "none" THEN bal
      ELSE Ok([st EXCEPT !.balances = SetAt(@, idx, (bal.val + delta) % Uint64Mod)])

\* the aggregate signature check at the end of VerifyIndexedAttestation: the
\* signature either is the aggregate of the attesting validators' signatures
\* over the attestation data or it is not
VerifyIndexedAttestationSig(indexedAtt) == indexedAtt.signature = "valid"

(***************************************************************************)
(* The transition (beacon-chain/core/blocks/attestation.go).               *)
(*                                                                         *)
(* A call yields  err    the error returned ("none" is nil),               *)
(*                ret    what is returned as the state: "nil" or "state"   *)
(*                       (the pointer it was given),                       *)
(*                state  what the state object holds when the call returns,*)
(*                log    the checks, lookups and state writes the call     *)
(*                       made, in the order it made them,                  *)
(* and, once computed, the flags granted, the attesting indices, the       *)
(* proposer-reward numerator and the reward credited.                      *)
(***************************************************************************)
NoFlags == {}

Failure(e, st, log) ==
  [err |-> e, ret |-> "nil", state |-> st, log |-> log,
   participatedFlags |-> NoFlags, indices |-> <<>>,
   proposerRewardNumerator |-> 0, proposerReward |-> 0]

\* helpers.ValidateNilAttestation
ValidateNilAttestation(att) == ~att.isNil

\* the write of one flag, shared by the variants of ApplyFlag below
WriteFlag(acc, isCurrent, index, byte, credit) ==
  LET bytes == SetAt(acc.ep.bytes, index, byte)
  IN  [st |-> IF ~acc.ep.shared THEN acc.st
              ELSE IF isCurrent
                   THEN [acc.st EXCEPT !.currentEpochParticipation = bytes]
                   ELSE [acc.st EXCEPT !.previousEpochParticipation = bytes],
       ep |-> [acc.ep EXCEPT !.bytes = bytes],
       num |-> (acc.num + credit) % Uint64Mod,
       log |-> IF acc.ep.shared THEN Append(acc.log, "write:participation")
               ELSE acc.log,
       err |-> acc.err]

\* variant: credits a granted flag whether or not it was already set
ApplyFlag_NoHasCheck(acc, isCurrent, index, flag, numerator, br, participatedFlags) ==
  IF flag \in participatedFlags
  THEN WriteFlag(acc, isCurrent, index,
                 AddValidatorFlag(At(acc.ep.bytes, index), flag), br * numerator)
  ELSE acc

\* variant: stores the flag in place of the byte instead of adding it
ApplyFlag_Overwrite(acc, isCurrent, index, flag, numerator, br, participatedFlags) ==
  IF flag \in participatedFlags
     /\ ~HasValidatorFlag(At(acc.ep.bytes, index), flag)
  THEN WriteFlag(acc, isCurrent, index, flag, br * numerator)
  ELSE acc

\* variant: accumulates the flag's numerator without the base reward
ApplyFlag_NumeratorOnly(acc, isCurrent, index, flag, numerator, br, participatedFlags) ==
  IF flag \in participatedFlags
     /\ ~HasValidatorFlag(At(acc.ep.bytes, index), flag)
  THEN WriteFlag(acc, isCurrent, index,
                 AddValidatorFlag(At(acc.ep.bytes, index), flag), numerator)
  ELSE acc

\* variant: takes a flag for set when the byte is not below the flag's value
ApplyFlag_CompareByte(acc, isCurrent, index, flag, numerator, br, participatedFlags) ==
  IF flag \in participatedFlags
     /\ At(acc.ep.bytes, index) < flag
  THEN WriteFlag(acc, isCurrent, index,
                 AddValidatorFlag(At(acc.ep.bytes, index), flag), br * numerator)
  ELSE acc

\* one `if participatedFlags[flag] && !HasValidatorFlag(...)` block of the loop
\* body; acc carries the state object, the local slice epochParticipation, the
\* numerator and the log.  A write through a slice that shares its storage
\* with the state is a write to the state.
ApplyFlag(acc, isCurrent, index, flag, numerator, br, participatedFlags) ==
  IF flag \in participatedFlags
     /\ ~HasValidatorFlag(At(acc.ep.bytes, index), flag)
  THEN WriteFlag(acc, isCurrent, index,
                 AddValidatorFlag(At(acc.ep.bytes, index), flag), br * numerator)
  ELSE acc

\* variant: the loop body leaves out the target flag
LoopBody_NoTarget(acc, isCurrent, index, br, participatedFlags) ==
  ApplyFlag(
    ApplyFlag(acc, isCurrent, index, TimelyHeadFlag, TimelyHeadNumerator,
              br, participatedFlags),
    isCurrent, index, TimelySourceFlag, TimelySourceNumerator,
    br, participatedFlags)

\* the body of the loop for one attesting index (lines 246-261), the base
\* reward br having been computed
LoopBody(acc, isCurrent, index, br, participatedFlags) ==
  ApplyFlag(
    ApplyFlag(
      ApplyFlag(acc, isCurrent, index, TimelyHeadFlag, TimelyHeadNumerator,
                br, participatedFlags),
      isCurrent, index, TimelySourceFlag, TimelySourceNumerator,
      br, participatedFlags),
    isCurrent, index, TimelyTargetFlag, TimelyTargetNumerator,
    br, participatedFlags)

\* lines 245-249: the base reward of the index is computed first
LoopStep(acc, isCurrent, index, br, participatedFlags) ==
  IF br.err # "none" THEN [acc EXCEPT !.err = br.err]
  ELSE LoopBody(acc, isCurrent, index, br.val, participatedFlags)

\* the loop over the attesting indices (lines 244-262); an error ends it
RECURSIVE ParticipationLoop(_, _, _, _)
ParticipationLoop(acc, isCurrent, indices, participatedFlags) ==
  IF indices = <<>> \/ acc.err # "none" THEN acc
  ELSE ParticipationLoop(
         LoopStep([acc EXCEPT !.log = Append(@, "lookup:baseReward")],
                  isCurrent, Head(indices), BaseReward(acc.st, Head(indices)),
                  participatedFlags),
         isCurrent, Tail(indices), participatedFlags)

\* variant: the head flag does not ask for a matching target
ParticipatedFlags_HeadIgnoresTarget(st, data, matchingSource, matchingTarget, matchingHead) ==
  (IF matchingHead /\ Slot(st) <= data.slot + MinAttestationInclusionDelay
   THEN {TimelyHeadFlag} ELSE {})
  \cup
  (IF matchingSource
      /\ Slot(st) <= data.slot + IntegerSquareRoot(SlotsPerEpoch)
   THEN {TimelySourceFlag} ELSE {})
  \cup
  (IF matchingTarget /\ Slot(st) <= data.slot + SlotsPerEpoch
   THEN {TimelyTargetFlag} ELSE {})

\* variant: the target flag does not ask for a matching target root
ParticipatedFlags_TargetIgnoresRoot(st, data, matchingSource, matchingTarget, matchingHead) ==
  (IF matchingHead /\ matchingTarget
      /\ Slot(st) <= data.slot + MinAttestationInclusionDelay
   THEN {TimelyHeadFlag} ELSE {})
  \cup
  (IF matchingSource
      /\ Slot(st) <= data.slot + IntegerSquareRoot(SlotsPerEpoch)
   THEN {TimelySourceFlag} ELSE {})
  \cup
  (IF Slot(st) <= data.slot + SlotsPerEpoch
   THEN {TimelyTargetFlag} ELSE {})

\* lines 226-239: the flags the attestation earns
ParticipatedFlags(st, data, matchingSource, matchingTarget, matchingHead) ==
  (IF matchingHead /\ matchingTarget
      /\ Slot(st) <= data.slot + MinAttestationInclusionDelay
   THEN {TimelyHeadFlag} ELSE {})
  \cup
  (IF matchingSource
      /\ Slot(st) <= data.slot + IntegerSquareRoot(SlotsPerEpoch)
   THEN {TimelySourceFlag} ELSE {})
  \cup
  (IF matchingTarget /\ Slot(st) <= data.slot + SlotsPerEpoch
   THEN {TimelyTargetFlag} ELSE {})

\* variant: the reward is added to the balance of validator 0
CreditProposer_FirstValidator(acc, participatedFlags, indices, st, i, proposerReward, log3) ==
  IF i.err # "none" THEN Failure(i.err, st, log3)
  ELSE [err |-> "none", ret |-> "state",
        state |-> IncreaseBalance(st, 0, proposerReward).val,
        log |-> Append(log3, "write:balance"),
        participatedFlags |-> participatedFlags, indices |-> indices,
        proposerRewardNumerator |-> acc.num, proposerReward |-> proposerReward]

\* lines 273-281: the proposer's reward is added to its balance
CreditProposer(acc, participatedFlags, indices, st, i, proposerReward, log3) ==
  IF i.err # "none" THEN Failure(i.err, st, log3)
  ELSE IF IncreaseBalance(st, i.val, proposerReward).err # "none"
  THEN Failure(IncreaseBalance(st, i.val, proposerReward).err, st, log3)
  ELSE [err |-> "none", ret |-> "state",
        state |-> IncreaseBalance(st, i.val, proposerReward).val,
        log |-> Append(log3, "write:balance"),
        participatedFlags |-> participatedFlags, indices |-> indices,
        proposerRewardNumerator |-> acc.num, proposerReward |-> proposerReward]

\* lines 264-277: the local slice is stored into the state, then the reward is
\* computed and the proposer looked up
StoreParticipation(acc, participatedFlags, indices, set) ==
  IF set.err # "none" THEN Failure(set.err, acc.st, acc.log)
  ELSE CreditProposer(
         acc, participatedFlags, indices, set.val, BeaconProposerIndex(set.val),
         acc.num \div ((RewardDenominator * ProposerRewardQuotient) % Uint64Mod),
         Append(Append(acc.log, "write:participation"), "lookup:proposerIndex"))

\* lines 244-272: the loop has run; acc is what it left
AfterParticipationLoop(acc, isCurrent, participatedFlags, indices) ==
  IF acc.err # "none" THEN Failure(acc.err, acc.st, acc.log)
  ELSE StoreParticipation(
         acc, participatedFlags, indices,
         IF isCurrent THEN SetCurrentParticipationBits(acc.st, acc.ep.bytes)
         ELSE SetPreviousParticipationBits(acc.st, acc.ep.bytes))

\* lines 240-262: the attesting indices and the loop over them
UpdateWithIndices(st, isCurrent, epochParticipation, participatedFlags, indices, log1) ==
  IF indices.err # "none" THEN Failure(indices.err, st, log1)
  ELSE AfterParticipationLoop(
         ParticipationLoop([st |-> st, ep |-> epochParticipation, num |-> 0,
                            log |-> log1, err |-> "none"],
                           isCurrent, indices.val, participatedFlags),
         isCurrent, participatedFlags, indices.val)

\* lines 240-281: the participation update and the proposer reward
UpdateParticipation(st, att, committee, isCurrent, epochParticipation, participatedFlags, log0) ==
  UpdateWithIndices(st, isCurrent, epochParticipation, participatedFlags,
                    AttestingIndices(att.aggregationBits, committee),
                    Append(log0, "lookup:attestingIndices"))

\* lines 215-239: the block roots of the target epoch and of the attested
\* slot, and the flags
MatchRootsAndUpdate(st, att, committee, isCurrent, epochParticipation, matchingSource, r1, r2, log7) ==
  IF r1.err # "none" THEN Failure(r1.err, st, Append(log7, "lookup:blockRoot"))
  ELSE IF r2.err # "none"
  THEN Failure(r2.err, st,
               Append(Append(log7, "lookup:blockRoot"), "lookup:blockRootAtSlot"))
  ELSE UpdateParticipation(
         st, att, committee, isCurrent, epochParticipation,
         ParticipatedFlags(st, att.data, matchingSource,
                           r1.val = att.data.target.root,
                           r2.val = att.data.beaconBlockRoot),
         Append(Append(log7, "lookup:blockRoot"), "lookup:blockRootAtSlot"))

\* lines 208-214: the target epoch and the source against the justified
\* checkpoint selected
CheckSource(st, att, committee, isCurrent, justifiedCheckpt, ffgTargetEpoch, epochParticipation, log6) ==
  IF att.data.target.epoch # ffgTargetEpoch
  THEN Failure("TargetEpochMismatch", st, log6)
  ELSE IF ~CheckPointIsEqual(att.data.source, justifiedCheckpt)
  THEN Failure("SourceMismatch", st, Append(log6, "check:source"))
  ELSE MatchRootsAndUpdate(st, att, committee, isCurrent, epochParticipation,
                           CheckPointIsEqual(att.data.source, justifiedCheckpt),
                           BlockRoot(st, att.data.target.epoch),
                           BlockRootAtSlot(st, att.data.slot),
                           Append(log6, "check:source"))

\* variant: starts from the participation array of the current epoch also
\* for a target in the previous epoch
SelectEpoch_CurrentArray(st, att, committee, isCurrent, log6) ==
  CheckSource(st, att, committee, isCurrent,
              IF isCurrent THEN CurrentJustifiedCheckpoint(st)
              ELSE PreviousJustifiedCheckpoint(st),
              IF isCurrent THEN CurrentEpoch(st) ELSE PrevEpoch(st),
              CurrentEpochParticipation(st),
              log6)

\* lines 196-207: the justified checkpoint and the participation array of the
\* target epoch
SelectEpoch(st, att, committee, isCurrent, log6) ==
  CheckSource(st, att, committee, isCurrent,
              IF isCurrent THEN CurrentJustifiedCheckpoint(st)
              ELSE PreviousJustifiedCheckpoint(st),
              IF isCurrent THEN CurrentEpoch(st) ELSE PrevEpoch(st),
              IF isCurrent THEN CurrentEpochParticipation(st)
              ELSE PreviousEpochParticipation(st),
              log6)

\* lines 196-239: the source check, the block roots and the flags
VerifySourceAndUpdate(st, att, committee, log6) ==
  SelectEpoch(st, att, committee, att.data.target.epoch = CurrentEpoch(st), log6)

\* variant: lets a committee index equal to the committee count through
CommitteeIndexOutOfRange_OffByOne(att, c) == att.data.committeeIndex > c

\* line 176: the committee index is not below the committee count
CommitteeIndexOutOfRange(att, c) == att.data.committeeIndex >= c

\* lines 188-194: the indexed attestation and its indices
CheckIndices(st, att, committee, indexedAtt, log6) ==
  IF indexedAtt.err # "none" THEN Failure(indexedAtt.err, st, log6)
  ELSE IF ~IsValidAttestationIndices(indexedAtt.val)
  THEN Failure("InvalidIndices", st, log6)
  ELSE VerifySourceAndUpdate(st, att, committee, log6)

\* lines 184-194: the committee of the attestation
CheckCommittee(st, att, committee, log6) ==
  IF committee.err # "none" THEN Failure(committee.err, st, log6)
  ELSE CheckIndices(st, att, committee.val,
                    ConvertToIndexed(att, committee.val), log6)

\* variant: checks the bitfield length before the committee index
CheckIndexAndBitfield_BitfieldFirst(st, att, activeValidatorCount, log3) ==
  IF activeValidatorCount.err # "none"
  THEN Failure(activeValidatorCount.err, st, log3)
  ELSE IF ~VerifyAttestationBitfieldLengths(st, att)
  THEN Failure("BitfieldLengthMismatch", st, Append(log3, "check:bitfield"))
  ELSE IF CommitteeIndexOutOfRange(att, SlotCommitteeCount(activeValidatorCount.val))
  THEN Failure("CommitteeIndexOutOfRange", st,
               Append(Append(log3, "check:bitfield"), "check:committeeIndex"))
  ELSE CheckCommittee(
         st, att,
         BeaconCommitteeFromState(st, att.data.slot, att.data.committeeIndex),
         Append(Append(Append(log3, "check:bitfield"), "check:committeeIndex"),
                "check:indices"))

\* lines 171-183: the committee index against the committee count, then the
\* length of the bitfield
CheckIndexAndBitfield(st, att, activeValidatorCount, log3) ==
  IF activeValidatorCount.err # "none"
  THEN Failure(activeValidatorCount.err, st, Append(log3, "check:committeeIndex"))
  ELSE IF CommitteeIndexOutOfRange(att, SlotCommitteeCount(activeValidatorCount.val))
  THEN Failure("CommitteeIndexOutOfRange", st, Append(log3, "check:committeeIndex"))
  ELSE IF ~VerifyAttestationBitfieldLengths(st, att)
  THEN Failure("BitfieldLengthMismatch", st,
               Append(Append(log3, "check:committeeIndex"), "check:bitfield"))
  ELSE CheckCommittee(
         st, att,
         BeaconCommitteeFromState(st, att.data.slot, att.data.committeeIndex),
         Append(Append(Append(log3, "check:committeeIndex"), "check:bitfield"),
                "check:indices"))

\* lines 171-194: the committee index, the bitfield length and the attesting
\* indices
VerifyCommitteeAndIndices(st, att, log3) ==
  CheckIndexAndBitfield(st, att,
                        ActiveValidatorCount(st, att.data.target.epoch), log3)

\* variant: the upper bound of the window is exclusive
EpochInclusionCheck_Exclusive(st, s) == Slot(st) < s + SlotsPerEpoch

\* line 153
MinInclusionCheck(st, s) == s + MinAttestationInclusionDelay <= Slot(st)

\* variant: the window has no upper bound
EpochInclusionCheck_NoBound(st, s) == TRUE

\* line 162
EpochInclusionCheck(st, s) == Slot(st) <= s + SlotsPerEpoch

\* ProcessAttestationNoVerifySignature (lines 126-282)
ProcessAttestationNoVerifySignature(st, att) ==
  IF ~ValidateNilAttestation(att)
  THEN Failure("NilAttestation", st, <<"check:nil">>)
  ELSE IF att.data.target.epoch # PrevEpoch(st)
          /\ att.data.target.epoch # CurrentEpoch(st)
  THEN Failure("TargetEpochMismatch", st, <<"check:nil", "check:epoch">>)
  ELSE IF ~ValidateSlotTargetEpoch(att.data)
  THEN Failure("SlotEpochMismatch", st,
               <<"check:nil", "check:epoch", "check:slotEpoch">>)
  ELSE IF ~MinInclusionCheck(st, att.data.slot)
  THEN Failure("InclusionWindowViolation", st,
               <<"check:nil", "check:epoch", "check:slotEpoch", "check:window">>)
  ELSE IF ~EpochInclusionCheck(st, att.data.slot)
  THEN Failure("InclusionWindowViolation", st,
               <<"check:nil", "check:epoch", "check:slotEpoch", "check:window">>)
  ELSE VerifyCommitteeAndIndices(
         st, att,
         <<"check:nil", "check:epoch", "check:slotEpoch", "check:window">>)

\* VerifyIndexedAttestation (lines 317-339)
VerifyIndexedAttestation(st, indexedAtt) ==
  IF ~IsValidAttestationIndices(indexedAtt) THEN "InvalidIndices"
  ELSE IF ~VerifyIndexedAttestationSig(indexedAtt) THEN "InvalidSignature"
  ELSE "none"

\* lines 294-298 of VerifyAttestationSignature
VerifyConverted(st, indexedAtt) ==
  IF indexedAtt.err # "none" THEN indexedAtt.err
  ELSE VerifyIndexedAttestation(st, indexedAtt.val)

\* lines 290-298 of VerifyAttestationSignature
VerifyWithCommittee(st, att, committee) ==
  IF committee.err # "none" THEN committee.err
  ELSE VerifyConverted(st, ConvertToIndexed(att, committee.val))

\* VerifyAttestationSignature (lines 286-299)
VerifyAttestationSignature(st, att) ==
  IF ~ValidateNilAttestation(att) THEN "NilAttestation"
  ELSE VerifyWithCommittee(
         st, att,
         BeaconCommitteeFromState(st, att.data.slot, att.data.committeeIndex))

\* variant: returns what ProcessAttestationNoVerifySignature yielded, the
\* signature unverified
ThenVerifySignature_Skip(r, att) ==
  IF r.err # "none" THEN [r EXCEPT !.ret = "nil"]
  ELSE [r EXCEPT !.log = Append(@, "check:signature")]

\* lines 96-100 of ProcessAttestation: r is what the call of
\* ProcessAttestationNoVerifySignature yielded
ThenVerifySignature(r, att) ==
  IF r.err # "none" THEN [r EXCEPT !.ret = "nil"]
  ELSE [r EXCEPT !.err = VerifyAttestationSignature(r.state, att),
                 !.log = Append(@, "check:signature")]

\* ProcessAttestation (lines 91-101)
ProcessAttestation(st, att) ==
  ThenVerifySignature(ProcessAttestationNoVerifySignature(st, att), att)

(***************************************************************************)
(* The state container and its accessors (beacon-chain/state), with their  *)
(* nil branches.  A list field is nil or holds items; a nil slice has      *)
(* length 0.                                                                *)
(*                                                                         *)
(* What an accessor hands out is  err   the error ("none" is nil; "absent" *)
(*                                      for an accessor that returns no    *)
(*                                      error value),                      *)
(*                                kind  "none": no value (nil / zero),     *)
(*                                      "copy": a value of its own,        *)
(*                                      "inner": the pointer to the inner  *)
(*                                      state itself,                      *)
(*                                      "view": read-only wrappers around  *)
(*                                      the validators' own objects,       *)
(*                                data  the copy, or the indices viewed,   *)
(*                                modified  whether the caller has changed  *)
(*                                      the copy since.                    *)
(***************************************************************************)
NilList == [isNil |-> TRUE, items |-> <<>>]

ListOf(items) == [isNil |-> FALSE, items |-> items]

\* BeaconState.HasInnerState (lines 148-150)
HasInnerState(c) == c.hasInner

Handed(op, idx, err, kind, data) ==
  [op |-> op, idx |-> idx, err |-> err, kind |-> kind, data |-> data,
   modified |-> FALSE]

\* CopyValidator: a new object with the fields of val
CopyValidator(val) ==
  [publicKey |-> val.publicKey,
   withdrawalCredentials |-> val.withdrawalCredentials,
   effectiveBalance |-> val.effectiveBalance,
   slashed |-> val.slashed,
   activationEligibilityEpoch |-> val.activationEligibilityEpoch,
   activationEpoch |-> val.activationEpoch,
   exitEpoch |-> val.exitEpoch,
   withdrawableEpoch |-> val.withdrawableEpoch]

\* &ethpb.Validator{}
EmptyValidator ==
  [publicKey |-> 0, withdrawalCredentials |-> 0, effectiveBalance |-> 0,
   slashed |-> FALSE, activationEligibilityEpoch |-> 0, activationEpoch |-> 0,
   exitEpoch |-> 0, withdrawableEpoch |-> 0]

\* BeaconState.InnerStateUnsafe (lines 104-109)
InnerStateUnsafe(c) ==
  IF ~c.hasInner THEN Handed("InnerStateUnsafe", 0, "absent", "none", <<>>)
  ELSE Handed("InnerStateUnsafe", 0, "absent", "inner", <<>>)

\* BeaconState.Slot (lines 227-235) and slot (lines 239-246): without an
\* inner state the result is slot 0, and there is no error to return
ContainerSlot(c) ==
  IF ~HasInnerState(c) THEN Handed("Slot", 0, "absent", "copy", 0)
  ELSE Handed("Slot", 0, "absent", "copy", c.slot)

\* BeaconState.NumValidators (lines 698-706): without an inner state the
\* result is 0, and there is no error to return
ContainerNumValidators(c) ==
  IF ~HasInnerState(c) THEN Handed("NumValidators", 0, "absent", "copy", 0)
  ELSE Handed("NumValidators", 0, "absent", "copy", Len(c.validators.items))

\* BeaconState.GenesisValidatorRoot (lines 176-202)
GenesisValidatorRoot(c) ==
  IF ~HasInnerState(c)
  THEN Handed("GenesisValidatorRoot", 0, "absent", "none", <<>>)
  ELSE IF c.genesisValidatorsRoot.isNil
  THEN Handed("GenesisValidatorRoot", 0, "absent", "copy", <<0>>)
  ELSE Handed("GenesisValidatorRoot", 0, "absent", "copy",
              c.genesisValidatorsRoot.items)

\* BeaconState.ValidatorAtIndex (lines 621-637)
ValidatorAtIndex(c, idx) ==
  IF ~HasInnerState(c)
  THEN Handed("ValidatorAtIndex", idx, "ErrNilInnerState", "none", <<>>)
  ELSE IF c.validators.isNil
  THEN Handed("ValidatorAtIndex", idx, "none", "copy", EmptyValidator)
  ELSE IF Len(c.validators.items) <= idx
  THEN Handed("ValidatorAtIndex", idx, "IndexOutOfRange", "none", <<>>)
  ELSE Handed("ValidatorAtIndex", idx, "none", "copy",
              CopyValidator(At(c.validators.items, idx)))

\* BeaconState.ValidatorAtIndexReadOnly (lines 641-656), nil branches included
ContainerValidatorAtIndexReadOnly(c, idx) ==
  IF ~HasInnerState(c)
  THEN Handed("ValidatorAtIndexReadOnly", idx, "ErrNilInnerState", "none", <<>>)
  ELSE IF c.validators.isNil
  THEN Handed("ValidatorAtIndexReadOnly", idx, "none", "none", <<>>)
  ELSE IF Len(c.validators.items) <= idx
  THEN Handed("ValidatorAtIndexReadOnly", idx, "IndexOutOfRange", "none", <<>>)
  ELSE Handed("ValidatorAtIndexReadOnly", idx, "none", "view", <<idx>>)

\* the methods of ReadOnlyValidator (lines 17-95)
ReadOnlyValidatorAccessors ==
  {"EffectiveBalance", "ActivationEligibilityEpoch", "ActivationEpoch",
   "WithdrawableEpoch", "ExitEpoch", "PublicKey", "WithdrawalCredentials",
   "Slashed", "CopyValidator"}

\* ReadOnlyValidator.IsNil (lines 98-100), of the wrapper that h holds: the
\* wrapper handed out for a nil registry wraps no validator
IsNil(h) == h.kind # "view"

\* what a method returns for a wrapper that wraps no validator
ZeroValue(method) ==
  IF method = "Slashed" THEN FALSE
  ELSE IF method = "CopyValidator" THEN "nil"
  ELSE 0

\* the field of the validator a method reads
FieldRead(method, val) ==
  CASE method = "EffectiveBalance" -> val.effectiveBalance
    [] method = "ActivationEligibilityEpoch" -> val.activationEligibilityEpoch
    [] method = "ActivationEpoch" -> val.activationEpoch
    [] method = "WithdrawableEpoch" -> val.withdrawableEpoch
    [] method = "ExitEpoch" -> val.exitEpoch
    [] method = "PublicKey" -> val.publicKey
    [] method = "WithdrawalCredentials" -> val.withdrawalCredentials
    [] method = "Slashed" -> val.slashed
    [] method = "CopyValidator" -> CopyValidator(val)

\* the methods that start with `if v.IsNil()`: WithdrawalCredentials (lines
\* 75-79) reads v.validator.WithdrawalCredentials at once
NilIsChecked(method) == method # "WithdrawalCredentials"

\* a method of ReadOnlyValidator called on the wrapper h holds; reading a
\* field through a nil pointer is a run-time panic
ReadOnlyValidatorMethod(method, c, h) ==
  IF IsNil(h) /\ NilIsChecked(method)
  THEN Handed(method, h.idx, "absent", "copy", ZeroValue(method))
  ELSE IF IsNil(h)
  THEN Handed(method, h.idx, "NilPointerDereference", "none", <<>>)
  ELSE Handed(method, h.idx, "absent", "copy",
              FieldRead(method, At(c.validators.items, h.data[1])))

\* BeaconState.PubkeyAtIndex (lines 681-695): it has no error to return
PubkeyAtIndex(c, idx) ==
  IF ~HasInnerState(c)
  THEN Handed("PubkeyAtIndex", idx, "absent", "copy", 0)
  ELSE IF idx >= Len(c.validators.items)
  THEN Handed("PubkeyAtIndex", idx, "absent", "copy", 0)
  ELSE Handed("PubkeyAtIndex", idx, "absent", "copy",
              At(c.validators.items, idx).publicKey)

\* BeaconState.ReadFromEveryValidator (lines 710-728): the callback is handed
\* a read-only wrapper around every validator of the registry
ReadFromEveryValidator(c) ==
  IF ~HasInnerState(c)
  THEN Handed("ReadFromEveryValidator", 0, "ErrNilInnerState", "none", <<>>)
  ELSE IF c.validators.isNil
  THEN Handed("ReadFromEveryValidator", 0, "NilValidators", "none", <<>>)
  ELSE Handed("ReadFromEveryValidator", 0, "none", "view",
              [k \in 1..Len(c.validators.items) |-> k - 1])

\* BeaconState.Balances (lines 731-758)
Balances(c) ==
  IF ~HasInnerState(c) THEN Handed("Balances", 0, "absent", "none", <<>>)
  ELSE IF c.balances.isNil THEN Handed("Balances", 0, "absent", "none", <<>>)
  ELSE Handed("Balances", 0, "absent", "copy", c.balances.items)

\* BeaconState.BalanceAtIndex (lines 761-776), nil branches included
ContainerBalanceAtIndex(c, idx) ==
  IF ~HasInnerState(c)
  THEN Handed("BalanceAtIndex", idx, "ErrNilInnerState", "copy", 0)
  ELSE IF c.balances.isNil
  THEN Handed("BalanceAtIndex", idx, "none", "copy", 0)
  ELSE IF Len(c.balances.items) <= idx
  THEN Handed("BalanceAtIndex", idx, "IndexOutOfRange", "copy", 0)
  ELSE Handed("BalanceAtIndex", idx, "none", "copy", At(c.balances.items, idx))

\* what the holder of a handed-out value reads through it
ReadThrough(c, h) ==
  IF h.kind = "inner" THEN <<c.validators, c.balances, c.genesisValidatorsRoot>>
  ELSE IF h.kind = "view"
  THEN [k \in 1..Len(h.data) |-> At(c.validators.items, h.data[k])]
  ELSE <<h.data, h.modified>>

\* before any accessor call
NothingHeld == Handed("none", 0, "absent", "none", <<>>)

\* a container that points to no inner state
UninitializedContainer ==
  [hasInner |-> FALSE, slot |-> 0, validators |-> NilList, balances |-> NilList,
   genesisValidatorsRoot |-> NilList]

\* sync.RWMutex: held by one writer or by a number of readers
Unlocked == [writer |-> FALSE, readers |-> 0]

IdleReader ==
  [op |-> "none", pc |-> 1, raced |-> FALSE, idx |-> 0, oob |-> FALSE,
   validators |-> NilList]

\* no record is being encoded or decoded
SszAtRest == ssz = [step |-> "none"]

\* the container is not in use
ContainerAtRest ==
  /\ SszAtRest
  /\ container = UninitializedContainer
  /\ held = NothingHeld
  /\ lock = Unlocked
  /\ reader = IdleReader
  /\ writer = "idle"

(***************************************************************************)
(* The states and the attestations of the model.                           *)
(***************************************************************************)
Roots == {0, 1}

\* validators differ in effective balance, so that base rewards differ
InitValidators ==
  [i \in 1..NumValidators |->
     IF i % 2 = 0 THEN MaxEffectiveBalance ELSE MaxEffectiveBalance \div 2]

\* the state's slot is the second slot of its third epoch: the slots attested
\* within the inclusion window lie in the current and in the previous epoch
InitSlots == {2 * SlotsPerEpoch + 1}

InitState(slot) ==
  [slot |-> slot,
   validators |-> InitValidators,
   balances |-> InitValidators,
   blockRoots |-> [i \in 1..SlotsPerHistoricalRoot |-> i % 2],
   currentEpochParticipation |-> [i \in 1..NumValidators |-> 0],
   previousEpochParticipation |-> [i \in 1..NumValidators |-> 0],
   currentJustifiedCheckpoint |-> [epoch |-> SlotToEpoch(slot) - 1, root |-> 1],
   previousJustifiedCheckpoint |-> [epoch |-> SlotToEpoch(slot) - 2, root |-> 0],
   finalizedCheckpoint |-> [epoch |-> SlotToEpoch(slot) - 2, root |-> 0]]

\* how many slots before the state's slot an attestation attests: no delay,
\* each of the three flag thresholds, one past the source threshold and one
\* past the inclusion window
Delays ==
  {0, MinAttestationInclusionDelay, IntegerSquareRoot(SlotsPerEpoch),
   IntegerSquareRoot(SlotsPerEpoch) + 1, SlotsPerEpoch, SlotsPerEpoch + 1}

BitLists ==
  {<<TRUE>>, <<FALSE>>, <<TRUE, TRUE>>, <<TRUE, FALSE>>, <<FALSE, TRUE>>}

Sources(st) ==
  {st.currentJustifiedCheckpoint, st.previousJustifiedCheckpoint,
   [epoch |-> st.currentJustifiedCheckpoint.epoch,
    root |-> st.previousJustifiedCheckpoint.root]}

\* a nil attestation (or one with a nil part): its other fields are never read
NilAttestation ==
  [isNil |-> TRUE,
   data |-> [slot |-> 0, committeeIndex |-> 0, beaconBlockRoot |-> 0,
             source |-> [epoch |-> 0, root |-> 0],
             target |-> [epoch |-> 0, root |-> 0]],
   aggregationBits |-> <<>>,
   signature |-> "invalid"]

Attestations(st) ==
  {NilAttestation} \cup
  [isNil : {FALSE},
   data : [slot : {st.slot - d : d \in Delays},
           committeeIndex : {0, 1},
           beaconBlockRoot : Roots,
           source : Sources(st),
           target : [epoch : {PrevEpoch(st), CurrentEpoch(st), CurrentEpoch(st) + 1},
                     root : Roots]],
   aggregationBits : BitLists,
   signature : {"valid", "invalid"}]

\* the attestations handed to the variant that skips the signature check are
\* those whose signature has been verified before
VerifiedAttestations(st) ==
  {a \in Attestations(st) : a.isNil \/ a.signature = "valid"}

NoCall ==
  [op |-> "none", att |-> NilAttestation, pre |-> InitState(0), err |-> "none",
   ret |-> "nil", log |-> <<>>, participatedFlags |-> NoFlags, indices |-> <<>>,
   proposerRewardNumerator |-> 0, proposerReward |-> 0, repeated |-> FALSE]

\* what is kept of a call: its input, the state object before it, its result,
\* and whether its attestation is the one of the call before
Record(op, att, pre, r) ==
  [op |-> op, att |-> att, pre |-> pre, err |-> r.err, ret |-> r.ret,
   repeated |-> (last.op # "none" /\ att = last.att),
   log |-> r.log, participatedFlags |-> r.participatedFlags,
   indices |-> r.indices, proposerRewardNumerator |-> r.proposerRewardNumerator,
   proposerReward |-> r.proposerReward]

Init ==
  /\ state \in {InitState(slot) : slot \in InitSlots}
  /\ last = NoCall
  /\ calls = 0
  /\ ContainerAtRest

\* the caller goes on with a state only after a call that returned no error
MayCall == calls < MaxCalls /\ last.err = "none"

\* the call has returned r: the state object holds what the call left in it
Returned(op, att, r) ==
  /\ state' = r.state
  /\ last' = Record(op, att, state, r)
  /\ UNCHANGED <<container, held, lock, reader, writer, ssz>>

\* a call of ProcessAttestation on the state object
CallProcessAttestation ==
  /\ MayCall
  /\ \E att \in Attestations(state) :
       Returned("ProcessAttestation", att, ProcessAttestation(state, att))
  /\ calls' = calls + 1

\* a call of ProcessAttestationNoVerifySignature on the state object
CallProcessAttestationNoVerifySignature ==
  /\ MayCall
  /\ \E att \in VerifiedAttestations(state) :
       Returned("ProcessAttestationNoVerifySignature", att,
                ProcessAttestationNoVerifySignature(state, att))
  /\ calls' = calls + 1

Next ==
  \/ CallProcessAttestation
  \/ CallProcessAttestationNoVerifySignature

Spec == Init /\ [][Next]_vars

(***************************************************************************)
(* The attestations of a block: ProcessAttestations and                    *)
(* ProcessAttestationsNoVerifySignature (attestation.go).                  *)
(*                                                                         *)
(* A call yields  err      the error of the attestation that failed,       *)
(*                index    the index the returned error names (-1: none),  *)
(*                ret      "nil" or "state",                               *)
(*                state    what the state object holds at the return,      *)
(*                applied  for every attestation handed to the single      *)
(*                         attestation function, in the order of the       *)
(*                         calls, its index and the state it was given.    *)
(***************************************************************************)
\* longest list of attestations in a block
MaxBlockLen == 3

\* helpers.VerifyNilBeaconBlock
VerifyNilBeaconBlock(b) == ~b.isNil

\* the call in the body of the loop: ProcessAttestation in ProcessAttestations
\* (line 33), ProcessAttestationNoVerifySignature in the other (line 116)
ProcessOne(verify, st, att) ==
  IF verify THEN ProcessAttestation(st, att)
  ELSE ProcessAttestationNoVerifySignature(st, att)

RECURSIVE AttestationsLoop(_, _, _, _)

\* variant: an attestation that fails is skipped and the loop goes on
AttestationsLoopStep_SkipFailed(verify, acc, attestations, idx, r) ==
  AttestationsLoop(verify, [acc EXCEPT !.state = r.state], attestations, idx + 1)

\* lines 33-36 (116-119): the state variable is reassigned to what the call
\* returned, and an error ends the loop with the index in the error
AttestationsLoopStep(verify, acc, attestations, idx, r) ==
  IF r.err # "none"
  THEN [acc EXCEPT !.state = r.state, !.err = r.err, !.index = idx, !.ret = "nil"]
  ELSE AttestationsLoop(verify, [acc EXCEPT !.state = r.state], attestations, idx + 1)

\* lines 32-38 (115-121): for idx, attestation := range ...Attestations
AttestationsLoop(verify, acc, attestations, idx) ==
  IF idx >= Len(attestations) THEN [acc EXCEPT !.ret = "state"]
  ELSE AttestationsLoopStep(
         verify,
         [acc EXCEPT !.applied = Append(@, [idx |-> idx, pre |-> acc.state])],
         attestations, idx, ProcessOne(verify, acc.state, At(attestations, idx)))

\* the body shared by ProcessAttestations and
\* ProcessAttestationsNoVerifySignature
ProcessBlockAttestations(verify, st, b) ==
  IF ~VerifyNilBeaconBlock(b)
  THEN [state |-> st, err |-> "NilBlock", index |-> -1, ret |-> "nil",
        applied |-> <<>>]
  ELSE AttestationsLoop(
         verify,
         [state |-> st, err |-> "none", index |-> -1, ret |-> "nil",
          applied |-> <<>>],
         b.attestations, 0)

\* ProcessAttestations (lines 23-40)
ProcessAttestations(st, b) == ProcessBlockAttestations(TRUE, st, b)

\* ProcessAttestationsNoVerifySignature (lines 105-122)
ProcessAttestationsNoVerifySignature(st, b) == ProcessBlockAttestations(FALSE, st, b)

\* the attestations of the blocks: nil, or for the committee 0 of one of the
\* slots just before the state's slot, with the target epoch of that slot and
\* the justified checkpoint of that epoch as source; they differ in the slot,
\* the length of the bitfield and the signature
BlockAttestations(st) ==
  {a \in Attestations(st) :
     \/ a.isNil
     \/ /\ a.data.committeeIndex = 0
        /\ a.data.beaconBlockRoot = 0
        /\ a.data.target.root = 0
        /\ a.data.source = (IF a.data.target.epoch = CurrentEpoch(st)
                             THEN st.currentJustifiedCheckpoint
                             ELSE st.previousJustifiedCheckpoint)
        /\ a.data.slot < st.slot
        /\ st.slot <= a.data.slot + IntegerSquareRoot(SlotsPerEpoch)
        /\ a.data.target.epoch = SlotToEpoch(a.data.slot)
        /\ a.aggregationBits \in {<<TRUE>>, <<TRUE, FALSE>>}}

NilBlock == [isNil |-> TRUE, attestations |-> <<>>]

Blocks(st) ==
  {NilBlock} \cup
  [isNil : {FALSE},
   attestations : UNION {[1..n -> BlockAttestations(st)] : n \in 0..MaxBlockLen}]

\* the blocks handed to the variant that skips the signature check hold
\* attestations whose signature has been verified before
VerifiedBlocks(st) ==
  {b \in Blocks(st) :
     \A k \in 1..Len(b.attestations) :
       b.attestations[k].isNil \/ b.attestations[k].signature = "valid"}

\* the block call has returned r
BlockReturned(op, b, r) ==
  /\ state' = r.state
  /\ last' = [op |-> op, block |-> b, pre |-> state, err |-> r.err,
              index |-> r.index, ret |-> r.ret, applied |-> r.applied]
  /\ UNCHANGED <<container, held, lock, reader, writer, ssz>>

\* one block is processed on a state
MayCallBlock == last.op = "none"

CallProcessAttestations ==
  /\ MayCallBlock
  /\ \E b \in Blocks(state) :
       BlockReturned("ProcessAttestations", b, ProcessAttestations(state, b))
  /\ calls' = calls + 1

CallProcessAttestationsNoVerifySignature ==
  /\ MayCallBlock
  /\ \E b \in VerifiedBlocks(state) :
       BlockReturned("ProcessAttestationsNoVerifySignature", b,
                     ProcessAttestationsNoVerifySignature(state, b))
  /\ calls' = calls + 1

NextBlocks ==
  \/ CallProcessAttestations
  \/ CallProcessAttestationsNoVerifySignature

SpecBlocks == Init /\ [][NextBlocks]_vars

(***************************************************************************)
(* Calls of the accessors, one call a step, on containers with and without *)
(* an inner state, with nil, empty and filled lists.                       *)
(***************************************************************************)
\* number of validators in the registry of a filled container
RegistrySize == 2

FilledRegistry ==
  [k \in 1..RegistrySize |->
     [publicKey |-> k, withdrawalCredentials |-> k, effectiveBalance |-> k,
      slashed |-> (k % 2 = 0), activationEligibilityEpoch |-> k,
      activationEpoch |-> k + 1, exitEpoch |-> k + 2, withdrawableEpoch |-> k + 3]]

Containers ==
  {UninitializedContainer} \cup
  [hasInner : {TRUE},
   slot : {1},
   validators : {NilList, ListOf(<<>>), ListOf(FilledRegistry)},
   balances : {NilList, ListOf(<<>>), ListOf([k \in 1..RegistrySize |-> k])},
   genesisValidatorsRoot : {NilList, ListOf(<<1>>)}]

\* the indices asked for: those of a filled list and the first one past it
Indices == 0..RegistrySize

\* the attestation functions are not called
AttestationsAtRest ==
  /\ state = InitState(0)
  /\ last = NoCall
  /\ calls = 0

InitAccessors ==
  /\ AttestationsAtRest
  /\ container \in Containers
  /\ held = NothingHeld
  /\ lock = Unlocked
  /\ reader = IdleReader
  /\ writer = "idle"
  /\ SszAtRest

\* an accessor call changes nothing but what its caller holds
OnlyHeldChanges == UNCHANGED <<state, last, calls, container, lock, reader, writer, ssz>>

CallInnerStateUnsafe ==
  /\ held' = InnerStateUnsafe(container)
  /\ OnlyHeldChanges

CallGenesisValidatorRoot ==
  /\ held' = GenesisValidatorRoot(container)
  /\ OnlyHeldChanges

CallSlot ==
  /\ held' = ContainerSlot(container)
  /\ OnlyHeldChanges

CallNumValidators ==
  /\ held' = ContainerNumValidators(container)
  /\ OnlyHeldChanges

CallValidatorAtIndex ==
  /\ \E idx \in Indices : held' = ValidatorAtIndex(container, idx)
  /\ OnlyHeldChanges

CallValidatorAtIndexReadOnly ==
  /\ \E idx \in Indices : held' = ContainerValidatorAtIndexReadOnly(container, idx)
  /\ OnlyHeldChanges

\* the caller of ValidatorAtIndexReadOnly calls a method of the wrapper it
\* was handed
CallReadOnlyValidatorMethod ==
  /\ held.op = "ValidatorAtIndexReadOnly"
  /\ held.err = "none"
  /\ \E method \in ReadOnlyValidatorAccessors :
       held' = ReadOnlyValidatorMethod(method, container, held)
  /\ OnlyHeldChanges

CallPubkeyAtIndex ==
  /\ \E idx \in Indices : held' = PubkeyAtIndex(container, idx)
  /\ OnlyHeldChanges

CallReadFromEveryValidator ==
  /\ held' = ReadFromEveryValidator(container)
  /\ OnlyHeldChanges

CallBalances ==
  /\ held' = Balances(container)
  /\ OnlyHeldChanges

CallBalanceAtIndex ==
  /\ \E idx \in Indices : held' = ContainerBalanceAtIndex(container, idx)
  /\ OnlyHeldChanges

\* the caller changes the value it was handed, a value of its own
ModifyCopy ==
  /\ held.kind = "copy"
  /\ ~held.modified
  /\ held' = [held EXCEPT !.modified = TRUE]
  /\ UNCHANGED <<state, last, calls, container, lock, reader, writer, ssz>>

\* the caller changes the value it was handed, the inner state behind the
\* pointer: it assigns a list of its own to the field Balances
ModifyThroughPointer ==
  /\ held.kind = "inner"
  /\ container' = [container EXCEPT !.balances = ListOf(<<0>>)]
  /\ container' # container
  /\ UNCHANGED <<state, last, calls, held, lock, reader, writer, ssz>>

\* a mutator of the container writes a balance (UpdateBalancesAtIndex)
UpdateBalancesAtIndex(c, idx, val) ==
  [c EXCEPT !.balances = ListOf(SetAt(c.balances.items, idx, val))]

WriteState ==
  /\ container.hasInner
  /\ Len(container.balances.items) > 0
  /\ container' = UpdateBalancesAtIndex(container, 0, 0)
  /\ container' # container
  /\ UNCHANGED <<state, last, calls, held, lock, reader, writer, ssz>>

NextAccessors ==
  \/ CallInnerStateUnsafe
  \/ CallGenesisValidatorRoot
  \/ CallSlot
  \/ CallNumValidators
  \/ CallValidatorAtIndex
  \/ CallValidatorAtIndexReadOnly
  \/ CallReadOnlyValidatorMethod
  \/ CallPubkeyAtIndex
  \/ CallReadFromEveryValidator
  \/ CallBalances
  \/ CallBalanceAtIndex
  \/ ModifyCopy
  \/ ModifyThroughPointer
  \/ WriteState

SpecAccessors == InitAccessors /\ [][NextAccessors]_vars

(***************************************************************************)
(* The accessors step by step, next to a mutator: what an accessor does    *)
(* between its entry and its return, in the order of its statements.       *)
(*   "read"      it reads a field of the container or of the inner state   *)
(*   "RLock"     b.lock.RLock()                                            *)
(*   "RUnlock"   b.lock.RUnlock() (deferred: on return)                    *)
(*   "callback"  it calls the function it was given                        *)
(***************************************************************************)
\* the list an indexed accessor indexes
IndexedList(op) ==
  IF op = "BalanceAtIndex" THEN container.balances ELSE container.validators

IndexedAccessors ==
  {"ValidatorAtIndex", "ValidatorAtIndexReadOnly", "BalanceAtIndex", "PubkeyAtIndex"}

\* HasInnerState (lines 148-150): b.state
StepsOfHasInnerState == <<"read">>

\* InnerStateUnsafe (lines 104-109): b.state
StepsOfInnerStateUnsafe == <<"read">>

\* Slot (lines 227-246): HasInnerState; RLock; slot(): HasInnerState and
\* b.state.Slot; RUnlock
StepsOfSlot == <<"read", "RLock", "read", "read", "RUnlock">>

\* GenesisValidatorRoot (lines 176-202): HasInnerState; the nil check; RLock;
\* genesisValidatorRoot(): HasInnerState, the nil check and the copy; RUnlock
StepsOfGenesisValidatorRoot ==
  <<"read", "read", "RLock", "read", "read", "read", "RUnlock">>

\* ValidatorAtIndex (lines 621-637): HasInnerState; the nil check; the length
\* check; RLock; b.state.Validators[idx]; RUnlock
StepsOfValidatorAtIndex == <<"read", "read", "read", "RLock", "read", "RUnlock">>

\* ValidatorAtIndexReadOnly (lines 641-656): HasInnerState; the nil check; the
\* length check; RLock; b.state.Validators[idx]; RUnlock
StepsOfValidatorAtIndexReadOnly ==
  <<"read", "read", "read", "RLock", "read", "RUnlock">>

\* PubkeyAtIndex (lines 681-695): HasInnerState; the length check; RLock;
\* b.state.Validators[idx] for the nil check; b.state.Validators[idx] for the
\* key; RUnlock
StepsOfPubkeyAtIndex == <<"read", "read", "RLock", "read", "read", "RUnlock">>

\* Balances (lines 731-758): HasInnerState; the nil check; RLock; balances():
\* HasInnerState, the nil check and the copy; RUnlock
StepsOfBalances == <<"read", "read", "RLock", "read", "read", "read", "RUnlock">>

\* BalanceAtIndex (lines 761-776): HasInnerState; the nil check; RLock; the
\* length check; b.state.Balances[idx]; RUnlock
StepsOfBalanceAtIndex == <<"read", "read", "RLock", "read", "read", "RUnlock">>

\* MatchCurrentJustifiedCheckpoint (lines 998-1011): HasInnerState; the nil
\* check; the epoch; the root
StepsOfMatchCurrentJustifiedCheckpoint == <<"read", "read", "read", "read">>

\* ReadFromEveryValidator (lines 710-728): HasInnerState; the nil check;
\* RLock; validators := b.state.Validators; RUnlock; then f for every
\* validator
StepsOfReadFromEveryValidator(c) ==
  <<"read", "read", "RLock", "read", "RUnlock">>
    \o [k \in 1..Len(c.validators.items) |-> "callback"]

Accessors ==
  {"HasInnerState", "InnerStateUnsafe", "Slot", "GenesisValidatorRoot",
   "ValidatorAtIndex", "ValidatorAtIndexReadOnly", "PubkeyAtIndex", "Balances",
   "BalanceAtIndex", "MatchCurrentJustifiedCheckpoint", "ReadFromEveryValidator"}

StepsOf(op, c) ==
  CASE op = "HasInnerState" -> StepsOfHasInnerState
    [] op = "InnerStateUnsafe" -> StepsOfInnerStateUnsafe
    [] op = "Slot" -> StepsOfSlot
    [] op = "GenesisValidatorRoot" -> StepsOfGenesisValidatorRoot
    [] op = "ValidatorAtIndex" -> StepsOfValidatorAtIndex
    [] op = "ValidatorAtIndexReadOnly" -> StepsOfValidatorAtIndexReadOnly
    [] op = "PubkeyAtIndex" -> StepsOfPubkeyAtIndex
    [] op = "Balances" -> StepsOfBalances
    [] op = "BalanceAtIndex" -> StepsOfBalanceAtIndex
    [] op = "MatchCurrentJustifiedCheckpoint" -> StepsOfMatchCurrentJustifiedCheckpoint
    [] op = "ReadFromEveryValidator" -> StepsOfReadFromEveryValidator(c)
    [] OTHER -> <<>>

\* the statement that compares the index with the length of the list
BoundsCheckAt(op) ==
  CASE op \in {"ValidatorAtIndex", "ValidatorAtIndexReadOnly"} -> 3
    [] op = "PubkeyAtIndex" -> 2
    [] op = "BalanceAtIndex" -> 4
    [] OTHER -> 0

\* the statements that index the list
ElementReadAt(op) ==
  CASE op \in {"ValidatorAtIndex", "ValidatorAtIndexReadOnly", "BalanceAtIndex"} -> {5}
    [] op = "PubkeyAtIndex" -> {4, 5}
    [] OTHER -> {}

\* where a failed length check leaves the accessor: at the deferred RUnlock
\* if it holds the read lock, at its return otherwise
AfterFailedCheck(op) ==
  IF op = "BalanceAtIndex" THEN 6 ELSE Len(StepsOf(op, container)) + 1

\* idx is not below the length the list has now
PastTheEnd(op, idx) == idx >= Len(IndexedList(op).items)

\* the container as the reader sees it: the loop of ReadFromEveryValidator
\* runs over the slice it assigned to its variable `validators` (line 718)
ReaderSees ==
  IF reader.op = "ReadFromEveryValidator" /\ reader.pc > 4
  THEN [container EXCEPT !.validators = reader.validators]
  ELSE container

\* the statement the reader is at ("return" past the last one)
AtStep(kind) ==
  /\ reader.op # "none"
  /\ IF reader.pc > Len(StepsOf(reader.op, ReaderSees)) THEN kind = "return"
     ELSE StepsOf(reader.op, ReaderSees)[reader.pc] = kind

\* a container with an inner state and filled lists
FilledContainer ==
  [hasInner |-> TRUE, slot |-> 1, validators |-> ListOf(FilledRegistry),
   balances |-> ListOf([k \in 1..RegistrySize |-> k]),
   genesisValidatorsRoot |-> ListOf(<<1>>)]

InitLocks ==
  /\ AttestationsAtRest
  /\ SszAtRest
  /\ container = FilledContainer
  /\ held = NothingHeld
  /\ lock = Unlocked
  /\ reader = IdleReader
  /\ writer = "idle"

\* a goroutine enters an accessor
ReaderCall ==
  /\ reader.op = "none"
  /\ \E op \in Accessors :
       \E idx \in (IF op \in IndexedAccessors THEN Indices ELSE {0}) :
         reader' = [reader EXCEPT !.op = op, !.pc = 1, !.idx = idx, !.oob = FALSE]
  /\ UNCHANGED <<state, last, calls, container, held, lock, writer, ssz>>

\* it reads a field: nothing holds it back; raced records that a mutator
\* was inside its critical section at that moment.  The length check returns
\* early for an index past the end; oob records that an indexing statement
\* ran with an index past the end of the list (a run-time panic).
ReaderRead ==
  /\ AtStep("read")
  /\ reader' =
       [reader EXCEPT
          !.pc = IF reader.pc = BoundsCheckAt(reader.op) /\ PastTheEnd(reader.op, reader.idx)
                 THEN AfterFailedCheck(reader.op)
                 ELSE @ + 1,
          !.raced = @ \/ lock.writer,
          !.oob = @ \/ (/\ reader.pc \in ElementReadAt(reader.op)
                        /\ PastTheEnd(reader.op, reader.idx)),
          !.validators = IF reader.op = "ReadFromEveryValidator" /\ reader.pc = 4
                         THEN container.validators
                         ELSE @]
  /\ UNCHANGED <<state, last, calls, container, held, lock, writer, ssz>>

\* sync.RWMutex.RLock: waits while a writer holds the lock
ReaderRLock ==
  /\ AtStep("RLock")
  /\ ~lock.writer
  /\ lock' = [lock EXCEPT !.readers = @ + 1]
  /\ reader' = [reader EXCEPT !.pc = @ + 1]
  /\ UNCHANGED <<state, last, calls, container, held, writer, ssz>>

\* sync.RWMutex.RUnlock
ReaderRUnlock ==
  /\ AtStep("RUnlock")
  /\ lock' = [lock EXCEPT !.readers = @ - 1]
  /\ reader' = [reader EXCEPT !.pc = @ + 1]
  /\ UNCHANGED <<state, last, calls, container, held, writer, ssz>>

\* the function handed to ReadFromEveryValidator runs for one validator
ReaderCallback ==
  /\ AtStep("callback")
  /\ reader' = [reader EXCEPT !.pc = @ + 1]
  /\ UNCHANGED <<state, last, calls, container, held, lock, writer, ssz>>

ReaderReturn ==
  /\ AtStep("return")
  /\ reader' = [reader EXCEPT !.op = "none", !.pc = 1, !.idx = 0, !.validators = NilList]
  /\ UNCHANGED <<state, last, calls, container, held, lock, writer, ssz>>

\* a mutator: sync.RWMutex.Lock waits for the readers and for other writers
WriterLock ==
  /\ writer = "idle"
  /\ lock = Unlocked
  /\ lock' = [lock EXCEPT !.writer = TRUE]
  /\ writer' = "locked"
  /\ UNCHANGED <<state, last, calls, container, held, reader, ssz>>

\* inside its critical section the mutator writes a balance
WriterWrite ==
  /\ writer = "locked"
  /\ container' = UpdateBalancesAtIndex(container, 0,
                                        (At(container.balances.items, 0) + 1) % 2)
  /\ writer' = "written"
  /\ UNCHANGED <<state, last, calls, held, lock, reader, ssz>>

\* a mutator that replaces the registry (SetValidators)
SetValidators(c, val) == [c EXCEPT !.validators = ListOf(val)]

\* inside its critical section the mutator replaces the registry by one of
\* another length
WriterSetValidators ==
  /\ writer = "locked"
  /\ \E n \in 0..RegistrySize :
       container' = SetValidators(container, SubSeq(FilledRegistry, 1, n))
  /\ container' # container
  /\ writer' = "written"
  /\ UNCHANGED <<state, last, calls, held, lock, reader, ssz>>

WriterUnlock ==
  /\ writer = "written"
  /\ lock' = [lock EXCEPT !.writer = FALSE]
  /\ writer' = "idle"
  /\ UNCHANGED <<state, last, calls, container, held, reader, ssz>>

NextLocks ==
  \/ ReaderCall
  \/ ReaderRead
  \/ ReaderRLock
  \/ ReaderRUnlock
  \/ ReaderCallback
  \/ ReaderReturn
  \/ WriterLock
  \/ WriterWrite
  \/ WriterSetValidators
  \/ WriterUnlock

SpecLocks == InitLocks /\ [][NextLocks]_vars

(***************************************************************************)
(* The generated SSZ code (part_000).  A buffer is a sequence of segments: *)
(* a segment is a run of `len` bytes that one append wrote, `val` stands   *)
(* for the content of the run.  Positions and lengths are in bytes, as in  *)
(* the code; a read that does not cover exactly one run yields Garbage.    *)
(* A field value is [count, len, val]: `count` elements of `len` bytes.    *)
(***************************************************************************)
Garbage == 0 - 1

Segment(len, val) == [len |-> len, val |-> val]

U64(v) == [count |-> 1, len |-> 8, val |-> v]

Bytes(len, v) == [count |-> 1, len |-> len, val |-> v]

Vector(count, len, v) == [count |-> count, len |-> len, val |-> v]

\* len(buf)
RECURSIVE BufLen(_)
BufLen(buf) == IF buf = <<>> THEN 0 ELSE Head(buf).len + BufLen(Tail(buf))

\* the part of one run that lies in buf[a:b], the run starting at pos
Piece(seg, pos, a, b) ==
  IF Min(b, pos + seg.len) - Max(a, pos) = seg.len THEN <<seg>>
  ELSE IF Min(b, pos + seg.len) - Max(a, pos) > 0
  THEN <<Segment(Min(b, pos + seg.len) - Max(a, pos), Garbage)>>
  ELSE <<>>

RECURSIVE SliceFrom(_, _, _, _)
SliceFrom(buf, pos, a, b) ==
  IF buf = <<>> \/ pos >= b THEN <<>>
  ELSE Piece(Head(buf), pos, a, b) \o SliceFrom(Tail(buf), pos + Head(buf).len, a, b)

\* buf[a:b]
Slice(buf, a, b) == SliceFrom(buf, 0, a, b)

\* the content of buf[a:b] read as one value
ReadValue(buf, a, b) ==
  IF Len(Slice(buf, a, b)) = 1 THEN Slice(buf, a, b)[1].val ELSE Garbage

\* one field written by MarshalSSZTo: a `uint64` (ssz.MarshalUint64), a
\* byte array of fixed length or a vector of byte arrays
MarshalField_NoLengthCheck(e, fv, acc) ==
  [acc EXCEPT !.dst = Append(@, Segment(fv.count * fv.len, fv.val))]

MarshalField(e, fv, acc) ==
  IF e.kind = "uint64" THEN [acc EXCEPT !.dst = Append(@, Segment(8, fv.val))]
  ELSE IF e.kind = "vector" /\ fv.count # e.count
  THEN [acc EXCEPT !.err = "ErrVectorLength"]
  ELSE IF fv.len # e.len THEN [acc EXCEPT !.err = "ErrBytesLength"]
  ELSE [acc EXCEPT !.dst = Append(@, Segment(fv.count * fv.len, fv.val))]

RECURSIVE MarshalFields(_, _, _, _)
MarshalFields(layout, r, i, acc) ==
  IF i > Len(layout) \/ acc.err # "none" THEN acc
  ELSE MarshalFields(layout, r, i + 1, MarshalField(layout[i], r[layout[i].field], acc))

UnmarshalField_FromStart(e, buf) ==
  IF e.kind = "uint64" THEN U64(ReadValue(buf, 0, e.to - e.from))
  ELSE IF e.kind = "bytes" THEN Bytes(e.to - e.from, ReadValue(buf, 0, e.to - e.from))
  ELSE Vector(e.count, e.len, ReadValue(buf, 0, e.to - e.from))

\* one field read by UnmarshalSSZ from buf[from:to]
UnmarshalField(e, buf) ==
  IF e.kind = "uint64" THEN U64(ReadValue(buf, e.from, e.to))
  ELSE IF e.kind = "bytes" THEN Bytes(e.to - e.from, ReadValue(buf, e.from, e.to))
  ELSE Vector(e.count, e.len, ReadValue(buf, e.from, e.to))

FieldsOf(layout) == {layout[k].field : k \in 1..Len(layout)}

EntryOf(layout, f) == layout[CHOOSE k \in 1..Len(layout) : layout[k].field = f]

UnmarshalFields(layout, buf) ==
  [f \in FieldsOf(layout) |-> UnmarshalField(EntryOf(layout, f), buf)]

M(field, kind, count, len) == [field |-> field, kind |-> kind, count |-> count, len |-> len]

U(field, kind, from, to, count, len) == [field |-> field, kind |-> kind, from |-> from, to |-> to, count |-> count, len |-> len]

\* the types whose encoding has a fixed size
FixedTypes ==
  {"Status", "BeaconBlocksByRangeRequest", "ENRForkID", "MetaData", "Fork",
   "HistoricalBatch", "SigningData", "ForkData", "DepositMessage", "SyncCommittee"}

\* the appends of MarshalSSZTo, in the order of the code
MarshalLayout(type) ==
  CASE type = "Status" ->
         <<M("ForkDigest", "bytes", 1, 4), M("FinalizedRoot", "bytes", 1, 32),
           M("FinalizedEpoch", "uint64", 1, 8), M("HeadRoot", "bytes", 1, 32),
           M("HeadSlot", "uint64", 1, 8)>>
    [] type = "BeaconBlocksByRangeRequest" ->
         <<M("StartSlot", "uint64", 1, 8), M("Count", "uint64", 1, 8),
           M("Step", "uint64", 1, 8)>>
    [] type = "ENRForkID" ->
         <<M("CurrentForkDigest", "bytes", 1, 4), M("NextForkVersion", "bytes", 1, 4),
           M("NextForkEpoch", "uint64", 1, 8)>>
    [] type = "MetaData" ->
         <<M("SeqNumber", "uint64", 1, 8), M("Attnets", "bytes", 1, 8)>>
    [] type = "Fork" ->
         <<M("PreviousVersion", "bytes", 1, 4), M("CurrentVersion", "bytes", 1, 4),
           M("Epoch", "uint64", 1, 8)>>
    [] type = "HistoricalBatch" ->
         <<M("BlockRoots", "vector", 8192, 32), M("StateRoots", "vector", 8192, 32)>>
    [] type = "SigningData" ->
         <<M("ObjectRoot", "bytes", 1, 32), M("Domain", "bytes", 1, 32)>>
    [] type = "ForkData" ->
         <<M("CurrentVersion", "bytes", 1, 4), M("GenesisValidatorsRoot", "bytes", 1, 32)>>
    [] type = "DepositMessage" ->
         <<M("PublicKey", "bytes", 1, 48), M("WithdrawalCredentials", "bytes", 1, 32),
           M("Amount", "uint64", 1, 8)>>
    [] type = "SyncCommittee" ->
         <<M("Pubkeys", "vector", 1024, 48), M("PubkeyAggregates", "vector", 16, 48)>>

\* the reads of UnmarshalSSZ: buf[from:to] of every field
UnmarshalLayout(type) ==
  CASE type = "Status" ->
         <<U("ForkDigest", "bytes", 0, 4, 1, 4), U("FinalizedRoot", "bytes", 4, 36, 1, 32),
           U("FinalizedEpoch", "uint64", 36, 44, 1, 8), U("HeadRoot", "bytes", 44, 76, 1, 32),
           U("HeadSlot", "uint64", 76, 84, 1, 8)>>
    [] type = "BeaconBlocksByRangeRequest" ->
         <<U("StartSlot", "uint64", 0, 8, 1, 8), U("Count", "uint64", 8, 16, 1, 8),
           U("Step", "uint64", 16, 24, 1, 8)>>
    [] type = "ENRForkID" ->
         <<U("CurrentForkDigest", "bytes", 0, 4, 1, 4), U("NextForkVersion", "bytes", 4, 8, 1, 4),
           U("NextForkEpoch", "uint64", 8, 16, 1, 8)>>
    [] type = "MetaData" ->
         <<U("SeqNumber", "uint64", 0, 8, 1, 8), U("Attnets", "bytes", 8, 16, 1, 8)>>
    [] type = "Fork" ->
         <<U("PreviousVersion", "bytes", 0, 4, 1, 4), U("CurrentVersion", "bytes", 4, 8, 1, 4),
           U("Epoch", "uint64", 8, 16, 1, 8)>>
    [] type = "HistoricalBatch" ->
         <<U("BlockRoots", "vector", 0, 262144, 8192, 32),
           U("StateRoots", "vector", 262144, 524288, 8192, 32)>>
    [] type = "SigningData" ->
         <<U("ObjectRoot", "bytes", 0, 32, 1, 32), U("Domain", "bytes", 32, 64, 1, 32)>>
    [] type = "ForkData" ->
         <<U("CurrentVersion", "bytes", 0, 4, 1, 4), U("GenesisValidatorsRoot", "bytes", 4, 36, 1, 32)>>
    [] type = "DepositMessage" ->
         <<U("PublicKey", "bytes", 0, 48, 1, 48), U("WithdrawalCredentials", "bytes", 48, 80, 1, 32),
           U("Amount", "uint64", 80, 88, 1, 8)>>
    [] type = "SyncCommittee" ->
         <<U("Pubkeys", "vector", 0, 49152, 1024, 48),
           U("PubkeyAggregates", "vector", 49152, 49920, 16, 48)>>

\* SizeSSZ of the types of fixed size; UnmarshalSSZ compares len(buf) with
\* the same number
FixedSizeSSZ(type) ==
  CASE type = "Status" -> 84
    [] type = "BeaconBlocksByRangeRequest" -> 24
    [] type = "ENRForkID" -> 16
    [] type = "MetaData" -> 16
    [] type = "Fork" -> 16
    [] type = "HistoricalBatch" -> 524288
    [] type = "SigningData" -> 64
    [] type = "ForkData" -> 36
    [] type = "DepositMessage" -> 88
    [] type = "SyncCommittee" -> 49920

Encoded(dst, err) == [dst |-> dst, err |-> err]

Decoded(rec, err) == [rec |-> rec, err |-> err]

\* no record: what a failed decoding leaves to its caller
NoRecord == [none |-> U64(0)]

\* MarshalSSZTo of a type of fixed size, appending to dst
MarshalFixedTo(type, r, dst) == MarshalFields(MarshalLayout(type), r, 1, Encoded(dst, "none"))

\* UnmarshalSSZ of a type of fixed size into a new object
UnmarshalFixed(type, buf) ==
  IF BufLen(buf) # FixedSizeSSZ(type) THEN Decoded(NoRecord, "ErrSize")
  ELSE Decoded(UnmarshalFields(UnmarshalLayout(type), buf), "none")

(***************************************************************************)
(* BeaconState.  Its record has the fields of the Go struct: numbers for   *)
(* the uint64 fields, field values for byte arrays and vectors, a record   *)
(* for Fork and the sync committees, a number standing for the content of  *)
(* every object whose code is in ethereumapis (BeaconBlockHeader, Eth1Data, *)
(* Checkpoint, Validator), and sequences for the six lists.                *)
(***************************************************************************)
\* len(list) > 1099511627776, the limit written within the range of TLC's
\* integers
OverRegistryLimit(n) == n > 0 /\ (n - 1) \div 1048576 >= 1048576

StateEncoded(dst, err, offset) == [dst |-> dst, err |-> err, offset |-> offset]

\* the fixed part of BeaconState.MarshalSSZTo (lines 412-573), field by
\* field: `object` is a type of this file, `opaque` one of ethereumapis
\* whose encoding has `len` bytes, `offset` the 4 bytes of ssz.WriteOffset
\* for a list whose elements have `len` bytes
StateMarshalLayout ==
  <<M("GenesisTime", "uint64", 1, 8),
    M("GenesisValidatorsRoot", "bytes", 1, 32),
    M("Slot", "uint64", 1, 8),
    M("Fork", "object", 1, 16),
    M("LatestBlockHeader", "opaque", 1, 112),
    M("BlockRoots", "vector", 8192, 32),
    M("StateRoots", "vector", 8192, 32),
    M("HistoricalRoots", "offset", 1, 32),
    M("Eth1Data", "opaque", 1, 72),
    M("Eth1DataVotes", "offset", 1, 72),
    M("Eth1DepositIndex", "uint64", 1, 8),
    M("Validators", "offset", 1, 121),
    M("Balances", "offset", 1, 8),
    M("RandaoMixes", "vector", 65536, 32),
    M("Slashings", "uint64s", 8192, 8),
    M("PreviousEpochParticipation", "offset", 1, 1),
    M("CurrentEpochParticipation", "offset", 1, 1),
    M("JustificationBits", "bytes", 1, 1),
    M("PreviousJustifiedCheckpoint", "opaque", 1, 40),
    M("CurrentJustifiedCheckpoint", "opaque", 1, 40),
    M("FinalizedCheckpoint", "opaque", 1, 40),
    M("CurrentSyncCommittee", "object", 1, 49920),
    M("NextSyncCommittee", "object", 1, 49920)>>

ObjectType(field) ==
  IF field = "Fork" THEN "Fork" ELSE "SyncCommittee"

\* the result of a nested MarshalSSZTo taken over by the caller
AfterObject(acc, inner) == [acc EXCEPT !.dst = inner.dst, !.err = inner.err]

\* ssz.WriteOffset(dst, offset); offset += len(list) * size of an element
WriteOffset_NoAdvance(e, list, acc) ==
  [acc EXCEPT !.dst = Append(@, Segment(4, acc.offset))]

WriteOffset(e, list, acc) ==
  [acc EXCEPT !.dst = Append(@, Segment(4, acc.offset)),
              !.offset = @ + Len(list) * e.len]

\* a field that points to no object
NilObject == [isNil |-> TRUE]

\* new(T): no bytes in any array
ZeroObject(type) ==
  [f \in FieldsOf(MarshalLayout(type)) |->
     IF EntryOf(MarshalLayout(type), f).kind = "uint64" THEN U64(0)
     ELSE IF EntryOf(MarshalLayout(type), f).kind = "bytes" THEN Bytes(0, 0)
     ELSE Vector(0, 0, 0)]

\* if b.X == nil { b.X = new(T) }
NewIfNil(type, obj) == IF obj = NilObject THEN ZeroObject(type) ELSE obj

MarshalStateField(e, b, acc) ==
  IF e.kind \in {"uint64", "bytes", "vector"}
  THEN MarshalField(e, b[e.field], acc)
  ELSE IF e.kind = "object"
  THEN AfterObject(acc, MarshalFixedTo(ObjectType(e.field),
                                      NewIfNil(ObjectType(e.field), b[e.field]), acc.dst))
  ELSE IF e.kind = "opaque"
  THEN [acc EXCEPT !.dst = Append(@, Segment(e.len, b[e.field]))]
  ELSE IF e.kind = "offset" THEN WriteOffset(e, b[e.field], acc)
  ELSE IF b[e.field].count # e.count THEN [acc EXCEPT !.err = "ErrVectorLength"]
  ELSE [acc EXCEPT !.dst = Append(@, Segment(e.count * 8, b[e.field].val))]

RECURSIVE MarshalStateFields(_, _, _)
MarshalStateFields(b, i, acc) ==
  IF i > Len(StateMarshalLayout) \/ acc.err # "none" THEN acc
  ELSE MarshalStateFields(b, i + 1, MarshalStateField(StateMarshalLayout[i], b, acc))

\* what MarshalSSZTo assigns to a field of its receiver
AssignedByMarshal(e, b) ==
  IF e.kind = "object" THEN [b EXCEPT ![e.field] = NewIfNil(ObjectType(e.field), @)]
  ELSE b

\* the receiver after the fixed part of BeaconState.MarshalSSZTo, which
\* returns at the first field that fails
RECURSIVE StateAfterMarshalFields(_, _, _)
StateAfterMarshalFields(b, i, acc) ==
  IF i > Len(StateMarshalLayout) \/ acc.err # "none" THEN b
  ELSE StateAfterMarshalFields(AssignedByMarshal(StateMarshalLayout[i], b), i + 1,
                               MarshalStateField(StateMarshalLayout[i], b, acc))

\* the loop over HistoricalRoots (lines 580-586)
RECURSIVE AppendRoots(_, _, _)
AppendRoots(acc, list, i) ==
  IF i > Len(list) \/ acc.err # "none" THEN acc
  ELSE IF list[i].len # 32 THEN [acc EXCEPT !.err = "ErrBytesLength"]
  ELSE AppendRoots([acc EXCEPT !.dst = Append(@, Segment(list[i].len, list[i].val))],
                   list, i + 1)

\* a loop that appends `len` bytes for every element of a list
RECURSIVE AppendElements(_, _, _, _)
AppendElements(acc, list, i, len) ==
  IF i > Len(list) THEN acc
  ELSE AppendElements([acc EXCEPT !.dst = Append(@, Segment(len, list[i]))],
                      list, i + 1, len)

\* Field (7) 'HistoricalRoots' (lines 575-586)
MarshalHistoricalRoots(b, acc) ==
  IF acc.err # "none" THEN acc
  ELSE IF Len(b.HistoricalRoots) > 16777216 THEN [acc EXCEPT !.err = "ErrListTooBig"]
  ELSE AppendRoots(acc, b.HistoricalRoots, 1)

\* Field (9) 'Eth1DataVotes' (lines 588-597)
MarshalEth1DataVotes(b, acc) ==
  IF acc.err # "none" THEN acc
  ELSE IF Len(b.Eth1DataVotes) > 2048 THEN [acc EXCEPT !.err = "ErrListTooBig"]
  ELSE AppendElements(acc, b.Eth1DataVotes, 1, 72)

\* Field (11) 'Validators' (lines 599-608)
MarshalValidators(b, acc) ==
  IF acc.err # "none" THEN acc
  ELSE IF OverRegistryLimit(Len(b.Validators)) THEN [acc EXCEPT !.err = "ErrListTooBig"]
  ELSE AppendElements(acc, b.Validators, 1, 121)

\* Field (12) 'Balances' (lines 610-617)
MarshalBalances(b, acc) ==
  IF acc.err # "none" THEN acc
  ELSE IF OverRegistryLimit(Len(b.Balances)) THEN [acc EXCEPT !.err = "ErrListTooBig"]
  ELSE AppendElements(acc, b.Balances, 1, 8)

\* Field (15) and Field (16), the participation bytes (lines 619-631)
MarshalParticipation(list, acc) ==
  IF acc.err # "none" THEN acc
  ELSE IF OverRegistryLimit(Len(list)) THEN [acc EXCEPT !.err = "ErrBytesLength"]
  ELSE AppendElements(acc, list, 1, 1)

\* BeaconState.MarshalSSZTo (lines 412-634) with an empty buf
MarshalState(b) ==
  MarshalParticipation(b.CurrentEpochParticipation,
    MarshalParticipation(b.PreviousEpochParticipation,
      MarshalBalances(b,
        MarshalValidators(b,
          MarshalEth1DataVotes(b,
            MarshalHistoricalRoots(b,
              MarshalStateFields(b, 1, StateEncoded(<<>>, "none", 2787217))))))))

\* BeaconState.SizeSSZ (lines 887-909)
StateSizeSSZ(b) ==
  2787217 + Len(b.HistoricalRoots) * 32 + Len(b.Eth1DataVotes) * 72
          + Len(b.Validators) * 121 + Len(b.Balances) * 8
          + Len(b.PreviousEpochParticipation) + Len(b.CurrentEpochParticipation)

\* the reads of the fixed part by BeaconState.UnmarshalSSZ (lines 647-793)
StateUnmarshalLayout ==
  <<U("GenesisTime", "uint64", 0, 8, 1, 8),
    U("GenesisValidatorsRoot", "bytes", 8, 40, 1, 32),
    U("Slot", "uint64", 40, 48, 1, 8),
    U("Fork", "object", 48, 64, 1, 16),
    U("LatestBlockHeader", "opaque", 64, 176, 1, 112),
    U("BlockRoots", "vector", 176, 262320, 8192, 32),
    U("StateRoots", "vector", 262320, 524464, 8192, 32),
    U("Eth1Data", "opaque", 524468, 524540, 1, 72),
    U("Eth1DepositIndex", "uint64", 524544, 524552, 1, 8),
    U("RandaoMixes", "vector", 524560, 2621712, 65536, 32),
    U("Slashings", "vector", 2621712, 2687248, 8192, 8),
    U("JustificationBits", "bytes", 2687256, 2687257, 1, 1),
    U("PreviousJustifiedCheckpoint", "opaque", 2687257, 2687297, 1, 40),
    U("CurrentJustifiedCheckpoint", "opaque", 2687297, 2687337, 1, 40),
    U("FinalizedCheckpoint", "opaque", 2687337, 2687377, 1, 40),
    U("CurrentSyncCommittee", "object", 2687377, 2737297, 1, 49920),
    U("NextSyncCommittee", "object", 2737297, 2787217, 1, 49920)>>

\* the six ssz.ReadOffset calls
ReadOffsets(buf) ==
  [o7 |-> ReadValue(buf, 524464, 524468),
   o9 |-> ReadValue(buf, 524540, 524544),
   o11 |-> ReadValue(buf, 524552, 524556),
   o12 |-> ReadValue(buf, 524556, 524560),
   o15 |-> ReadValue(buf, 2687248, 2687252),
   o16 |-> ReadValue(buf, 2687252, 2687256)]

\* the conditions under which UnmarshalSSZ returns ssz.ErrOffset
OffsetError_NoOrderCheck(o, size) ==
  \/ o.o7 > size
  \/ o.o9 > size
  \/ o.o11 > size
  \/ o.o12 > size
  \/ o.o15 > size
  \/ o.o16 > size

OffsetError(o, size) ==
  \/ o.o7 > size
  \/ o.o9 > size \/ o.o7 > o.o9
  \/ o.o11 > size \/ o.o9 > o.o11
  \/ o.o12 > size \/ o.o11 > o.o12
  \/ o.o15 > size \/ o.o12 > o.o15
  \/ o.o16 > size \/ o.o15 > o.o16

\* one fixed field of the state read from the buffer
UnmarshalStateField(e, buf) ==
  IF e.kind = "object"
  THEN UnmarshalFixed(ObjectType(e.field), Slice(buf, e.from, e.to)).rec
  ELSE IF e.kind = "opaque" THEN ReadValue(buf, e.from, e.to)
  ELSE UnmarshalField(e, buf)

\* ssz.DivideInt2(a, b, max): the number of elements of b bytes in a bytes
DivideInt2(a, b, overMax) ==
  IF a % b # 0 THEN [num |-> 0, err |-> "NotDivisible"]
  ELSE IF overMax THEN [num |-> 0, err |-> "ErrListTooBig"]
  ELSE [num |-> a \div b, err |-> "none"]

\* the elements of a list, `len` bytes each, read from buf
Elements(buf, len) == [k \in 1..(BufLen(buf) \div len) |-> ReadValue(buf, (k - 1) * len, k * len)]

RootElements(buf) == [k \in 1..(BufLen(buf) \div 32) |-> Bytes(32, ReadValue(buf, (k - 1) * 32, k * 32))]

\* the error of the first list that does not decode, in the order of the code
ListError(h, e, v, bal) ==
  IF DivideInt2(BufLen(h), 32, BufLen(h) \div 32 > 16777216).err # "none"
  THEN DivideInt2(BufLen(h), 32, BufLen(h) \div 32 > 16777216).err
  ELSE IF DivideInt2(BufLen(e), 72, BufLen(e) \div 72 > 2048).err # "none"
  THEN DivideInt2(BufLen(e), 72, BufLen(e) \div 72 > 2048).err
  ELSE IF DivideInt2(BufLen(v), 121, OverRegistryLimit(BufLen(v) \div 121)).err # "none"
  THEN DivideInt2(BufLen(v), 121, OverRegistryLimit(BufLen(v) \div 121)).err
  ELSE DivideInt2(BufLen(bal), 8, OverRegistryLimit(BufLen(bal) \div 8)).err

\* the state the decoding builds from the fixed part and the six slices
StateRecord(buf, h, e, v, bal, p, c) ==
  [f \in FieldsOf(StateMarshalLayout) |->
     IF f = "HistoricalRoots" THEN RootElements(h)
     ELSE IF f = "Eth1DataVotes" THEN Elements(e, 72)
     ELSE IF f = "Validators" THEN Elements(v, 121)
     ELSE IF f = "Balances" THEN Elements(bal, 8)
     ELSE IF f = "PreviousEpochParticipation" THEN Elements(p, 1)
     ELSE IF f = "CurrentEpochParticipation" THEN Elements(c, 1)
     ELSE UnmarshalStateField(EntryOf(StateUnmarshalLayout, f), buf)]

\* the variable part (lines 795-882): tail[o7:o9], tail[o9:o11], ...
UnmarshalLists(buf, h, e, v, bal, p, c) ==
  IF ListError(h, e, v, bal) # "none" THEN Decoded(NoRecord, ListError(h, e, v, bal))
  ELSE IF OverRegistryLimit(BufLen(p)) \/ OverRegistryLimit(BufLen(c))
  THEN Decoded(NoRecord, "ErrBytesLength")
  ELSE Decoded(StateRecord(buf, h, e, v, bal, p, c), "none")

UnmarshalWithOffsets(buf, o, size) ==
  IF OffsetError(o, size) THEN Decoded(NoRecord, "ErrOffset")
  ELSE UnmarshalLists(buf, Slice(buf, o.o7, o.o9), Slice(buf, o.o9, o.o11),
                      Slice(buf, o.o11, o.o12), Slice(buf, o.o12, o.o15),
                      Slice(buf, o.o15, o.o16), Slice(buf, o.o16, size))

\* BeaconState.UnmarshalSSZ (lines 637-884) into a new object
UnmarshalState(buf) ==
  IF BufLen(buf) < 2787217 THEN Decoded(NoRecord, "ErrSize")
  ELSE UnmarshalWithOffsets(buf, ReadOffsets(buf), BufLen(buf))

\* append(old, new...) on a byte slice: `if cap(old) == 0 { old = make(...) }`
\* leaves a slice that holds bytes as it is, and the new bytes follow them
AppendBytes(old, new) ==
  IF old.len = 0 THEN new ELSE Bytes(old.len + new.len, old.val * 256 + new.val)

\* one field read by UnmarshalSSZ into the field `old` of its receiver: a
\* uint64 is assigned, a vector is made anew, a byte array is appended to
UnmarshalFieldInto(e, old, buf) ==
  IF e.kind = "bytes" THEN AppendBytes(old, UnmarshalField(e, buf))
  ELSE UnmarshalField(e, buf)

\* UnmarshalSSZ of a type of fixed size into the object `old`
UnmarshalFixedInto(type, old, buf) ==
  IF BufLen(buf) # FixedSizeSSZ(type) THEN Decoded(NoRecord, "ErrSize")
  ELSE Decoded([f \in FieldsOf(UnmarshalLayout(type)) |->
                  UnmarshalFieldInto(EntryOf(UnmarshalLayout(type), f), old[f], buf)],
               "none")

\* one fixed field of the state read into the field `old` of the receiver:
\* an object that is not nil is decoded into
UnmarshalStateFieldInto(e, old, buf) ==
  IF e.kind = "object"
  THEN UnmarshalFixedInto(ObjectType(e.field), old, Slice(buf, e.from, e.to)).rec
  ELSE IF e.kind = "opaque" THEN ReadValue(buf, e.from, e.to)
  ELSE UnmarshalFieldInto(e, old, buf)

\* the state the decoding leaves in the receiver `old`: the four lists of
\* objects and numbers are made anew, the two participation lists are
\* appended to (lines 866-869, 878-881)
StateRecordInto(old, buf, h, e, v, bal, p, c) ==
  [f \in FieldsOf(StateMarshalLayout) |->
     IF f = "HistoricalRoots" THEN RootElements(h)
     ELSE IF f = "Eth1DataVotes" THEN Elements(e, 72)
     ELSE IF f = "Validators" THEN Elements(v, 121)
     ELSE IF f = "Balances" THEN Elements(bal, 8)
     ELSE IF f = "PreviousEpochParticipation" THEN old[f] \o Elements(p, 1)
     ELSE IF f = "CurrentEpochParticipation" THEN old[f] \o Elements(c, 1)
     ELSE UnmarshalStateFieldInto(EntryOf(StateUnmarshalLayout, f), old[f], buf)]

UnmarshalListsInto(old, buf, h, e, v, bal, p, c) ==
  IF ListError(h, e, v, bal) # "none" THEN Decoded(NoRecord, ListError(h, e, v, bal))
  ELSE IF OverRegistryLimit(BufLen(p)) \/ OverRegistryLimit(BufLen(c))
  THEN Decoded(NoRecord, "ErrBytesLength")
  ELSE Decoded(StateRecordInto(old, buf, h, e, v, bal, p, c), "none")

UnmarshalWithOffsetsInto(old, buf, o, size) ==
  IF OffsetError(o, size) THEN Decoded(NoRecord, "ErrOffset")
  ELSE UnmarshalListsInto(old, buf, Slice(buf, o.o7, o.o9), Slice(buf, o.o9, o.o11),
                          Slice(buf, o.o11, o.o12), Slice(buf, o.o12, o.o15),
                          Slice(buf, o.o15, o.o16), Slice(buf, o.o16, size))

\* BeaconState.UnmarshalSSZ (lines 637-884) into the object `old`
UnmarshalStateInto(old, buf) ==
  IF BufLen(buf) < 2787217 THEN Decoded(NoRecord, "ErrSize")
  ELSE UnmarshalWithOffsetsInto(old, buf, ReadOffsets(buf), BufLen(buf))

\* UnmarshalSSZ of every type called on an object that holds a record
UnmarshalSSZInto(type, old, buf) ==
  IF type = "BeaconState" THEN UnmarshalStateInto(old, buf)
  ELSE UnmarshalFixedInto(type, old, buf)

\* the receiver after MarshalSSZ: the types of fixed size have no field
\* that is an object
AfterMarshalSSZ(type, r) ==
  IF type = "BeaconState"
  THEN StateAfterMarshalFields(r, 1, StateEncoded(<<>>, "none", 2787217))
  ELSE r

\* MarshalSSZ, UnmarshalSSZ and SizeSSZ of every type
MarshalSSZ(type, r) ==
  IF type = "BeaconState" THEN Encoded(MarshalState(r).dst, MarshalState(r).err)
  ELSE MarshalFixedTo(type, r, <<>>)

UnmarshalSSZ(type, buf) ==
  IF type = "BeaconState" THEN UnmarshalState(buf) ELSE UnmarshalFixed(type, buf)

SizeSSZ(type, r) ==
  IF type = "BeaconState" THEN StateSizeSSZ(r) ELSE FixedSizeSSZ(type)

(***************************************************************************)
(* HashTreeRootWith.  The hasher's buffer is a sequence of 32-byte chunks; *)
(* a chunk is written as a sequence of numbers that stands for its bytes:  *)
(*   <<0>> \o content     a leaf, its trailing zero bytes left out,        *)
(*   <<1, depth>> \o ...  the root of a tree of that depth over chunks,    *)
(*                        its trailing zero chunks left out,               *)
(*   <<2, num>> \o root   a root mixed with the length num,                *)
(*   <<3, val>>           the root of an object of ethereumapis,           *)
(*   <<4, count, len, val>>  the root of a vector of byte arrays.          *)
(* Different sequences stand for different hashes.                         *)
(***************************************************************************)
RECURSIVE StripZeros(_)
StripZeros(s) ==
  IF s = <<>> THEN <<>>
  ELSE IF s[Len(s)] = 0 THEN StripZeros(SubSeq(s, 1, Len(s) - 1))
  ELSE s

Leaf(content) == <<0>> \o StripZeros(content)

ZeroChunk == Leaf(<<>>)

RECURSIVE StripZeroChunks(_)
StripZeroChunks(chunks) ==
  IF chunks = <<>> THEN <<>>
  ELSE IF chunks[Len(chunks)] = ZeroChunk
  THEN StripZeroChunks(SubSeq(chunks, 1, Len(chunks) - 1))
  ELSE chunks

RECURSIVE Flat(_)
Flat(chunks) ==
  IF chunks = <<>> THEN <<>>
  ELSE <<Len(Head(chunks))>> \o Head(chunks) \o Flat(Tail(chunks))

\* the depth of the tree over n chunks
RECURSIVE Depth(_)
Depth(n) == IF n <= 1 THEN 0 ELSE 1 + Depth((n + 1) \div 2)

\* the root of the tree of the given depth over the chunks, padded with
\* zero chunks
MerkleRoot(chunks, depth) ==
  IF depth = 0 THEN IF chunks = <<>> THEN ZeroChunk ELSE chunks[1]
  ELSE <<1, depth>> \o Flat(StripZeroChunks(chunks))

Hashing(buf, err) == [buf |-> buf, err |-> err]

\* hh.Merkleize(indx): the chunks from indx on are replaced by their root
Merkleize(acc, indx) ==
  IF acc.err # "none" THEN acc
  ELSE [acc EXCEPT !.buf = SubSeq(@, 1, indx)
          \o <<MerkleRoot(SubSeq(@, indx + 1, Len(@)), Depth(Len(@) - indx))>>]

\* hh.MerkleizeWithMixin(indx, num, limit), depth the depth of a tree of
\* limit chunks
MerkleizeWithMixin(acc, indx, num, depth) ==
  [acc EXCEPT !.buf = SubSeq(@, 1, indx)
     \o <<(<<2, num>> \o MerkleRoot(SubSeq(@, indx + 1, Len(@)), depth))>>]

\* the chunks of a sequence of values, n values in a chunk
RECURSIVE Pack(_, _)
Pack(list, n) ==
  IF list = <<>> THEN <<>>
  ELSE IF Len(list) <= n THEN <<Leaf(list)>>
  ELSE <<Leaf(SubSeq(list, 1, n))>> \o Pack(SubSeq(list, n + 1, Len(list)), n)

\* hh.PutBytes(b) for a byte list: up to 32 bytes are one padded chunk, more
\* are merkleized; no length is mixed in
PutByteList(acc, list) ==
  IF Len(list) <= 32 THEN [acc EXCEPT !.buf = @ \o Pack(list, 32)]
  ELSE [acc EXCEPT !.buf = Append(@, MerkleRoot(Pack(list, 32), Depth(Len(Pack(list, 32)))))]

RECURSIVE RootChunks(_, _, _)
RootChunks(acc, list, i) ==
  IF i > Len(list) \/ acc.err # "none" THEN acc
  ELSE IF list[i].len # 32 THEN [acc EXCEPT !.err = "ErrBytesLength"]
  ELSE RootChunks([acc EXCEPT !.buf = Append(@, Leaf(<<list[i].val>>))], list, i + 1)

ObjectChunks(list) == [k \in 1..Len(list) |-> <<3, list[k]>>]

\* one field of a type of fixed size put into the hasher
HashField(e, fv, acc) ==
  IF e.kind = "uint64" THEN [acc EXCEPT !.buf = Append(@, Leaf(<<fv.val>>))]
  ELSE IF e.kind = "vector" /\ fv.count # e.count
  THEN [acc EXCEPT !.err = "ErrVectorLength"]
  ELSE IF fv.len # e.len THEN [acc EXCEPT !.err = "ErrBytesLength"]
  ELSE IF e.kind = "vector"
  THEN [acc EXCEPT !.buf = Append(@, <<4, fv.count, fv.len, fv.val>>)]
  ELSE [acc EXCEPT !.buf = Append(@, Leaf(<<fv.val>>))]

RECURSIVE HashFields(_, _, _, _)
HashFields(layout, r, i, acc) ==
  IF i > Len(layout) \/ acc.err # "none" THEN acc
  ELSE HashFields(layout, r, i + 1, HashField(layout[i], r[layout[i].field], acc))

\* HashTreeRootWith of a type of fixed size: indx := hh.Index(); the
\* fields; hh.Merkleize(indx)
HashFixedWith(type, r, acc) ==
  Merkleize(HashFields(MarshalLayout(type), r, 1, acc), Len(acc.buf))

\* the fields of BeaconState.HashTreeRootWith (lines 917-1128) in the order
\* of the code; for a list `count` is the depth of the tree of its limit
StateHashLayout ==
  <<M("GenesisTime", "uint64", 1, 8),
    M("GenesisValidatorsRoot", "bytes", 1, 32),
    M("Slot", "uint64", 1, 8),
    M("Fork", "object", 1, 16),
    M("LatestBlockHeader", "opaque", 1, 112),
    M("BlockRoots", "vector", 8192, 32),
    M("StateRoots", "vector", 8192, 32),
    M("HistoricalRoots", "roots", 24, 32),
    M("Eth1Data", "opaque", 1, 72),
    M("Eth1DataVotes", "objects", 11, 72),
    M("Eth1DepositIndex", "uint64", 1, 8),
    M("Validators", "objects", 40, 121),
    M("Balances", "balances", 38, 8),
    M("RandaoMixes", "vector", 65536, 32),
    M("Slashings", "vector", 8192, 8),
    M("PreviousEpochParticipation", "participation", 1, 1),
    M("CurrentEpochParticipation", "participation", 1, 1),
    M("JustificationBits", "bytes", 1, 1),
    M("PreviousJustifiedCheckpoint", "opaque", 1, 40),
    M("CurrentJustifiedCheckpoint", "opaque", 1, 40),
    M("FinalizedCheckpoint", "opaque", 1, 40),
    M("CurrentSyncCommittee", "object", 1, 49920),
    M("NextSyncCommittee", "object", 1, 49920)>>

\* a list merkleized with its length mixed in
HashListWithMixin(e, list, acc) ==
  IF e.kind = "roots"
  THEN IF Len(list) > 16777216 THEN [acc EXCEPT !.err = "ErrListTooBig"]
       ELSE IF RootChunks(acc, list, 1).err # "none" THEN RootChunks(acc, list, 1)
       ELSE MerkleizeWithMixin(RootChunks(acc, list, 1), Len(acc.buf), Len(list), e.count)
  ELSE IF e.kind = "objects"
  THEN IF (e.field = "Eth1DataVotes" /\ Len(list) > 2048) \/ OverRegistryLimit(Len(list))
       THEN [acc EXCEPT !.err = "ErrIncorrectListSize"]
       ELSE MerkleizeWithMixin([acc EXCEPT !.buf = @ \o ObjectChunks(list)],
                               Len(acc.buf), Len(list), e.count)
  ELSE IF OverRegistryLimit(Len(list)) THEN [acc EXCEPT !.err = "ErrListTooBig"]
  ELSE MerkleizeWithMixin([acc EXCEPT !.buf = @ \o Pack(list, 4)],
                          Len(acc.buf), Len(list), e.count)

HashStateField(e, b, acc) ==
  IF e.kind \in {"uint64", "bytes", "vector"} THEN HashField(e, b[e.field], acc)
  ELSE IF e.kind = "object" THEN HashFixedWith(ObjectType(e.field), b[e.field], acc)
  ELSE IF e.kind = "opaque" THEN [acc EXCEPT !.buf = Append(@, <<3, b[e.field]>>)]
  ELSE IF e.kind = "participation"
  THEN IF OverRegistryLimit(Len(b[e.field])) THEN [acc EXCEPT !.err = "ErrBytesLength"]
       ELSE PutByteList(acc, b[e.field])
  ELSE HashListWithMixin(e, b[e.field], acc)

RECURSIVE HashStateFields(_, _, _)
HashStateFields(b, i, acc) ==
  IF i > Len(StateHashLayout) \/ acc.err # "none" THEN acc
  ELSE HashStateFields(b, i + 1, HashStateField(StateHashLayout[i], b, acc))

\* BeaconState.HashTreeRootWith (lines 917-1128)
HashStateWith(b, acc) == Merkleize(HashStateFields(b, 1, acc), Len(acc.buf))

HashTreeRootWith(type, r, acc) ==
  IF type = "BeaconState" THEN HashStateWith(r, acc) ELSE HashFixedWith(type, r, acc)

\* the hasher goes back to the pool: it is reset
Put_NoReset(acc) == acc.buf

Put(acc) == <<>>

Rooted(root, err, pool) == [root |-> root, err |-> err, pool |-> pool]

\* hh.HashRoot(): the buffer has to hold one chunk
HashRoot(acc) ==
  IF acc.err # "none" THEN Rooted(ZeroChunk, acc.err, Put(acc))
  ELSE IF Len(acc.buf) # 1 THEN Rooted(ZeroChunk, "ErrHashRootSize", Put(acc))
  ELSE Rooted(acc.buf[1], "none", Put(acc))

\* HashTreeRoot: ssz.HashWithDefaultHasher with the hasher of the pool
HashTreeRoot(type, r, pool) == HashRoot(HashTreeRootWith(type, r, Hashing(pool, "none")))

(***************************************************************************)
(* The records and the calls of the codec.                                 *)
(***************************************************************************)
\* the longest list of a BeaconState
MaxListLen == 1
\* the number of HashTreeRoot calls on one record
MaxHashCalls == 2

\* 0: every list element is zero; 1: the elements differ
Contents == {0, 1}

IndexOf(layout, f) == CHOOSE k \in 1..Len(layout) : layout[k].field = f

\* a field that MarshalSSZTo accepts
ValidField(e, v) ==
  IF e.kind = "uint64" THEN U64(v)
  ELSE IF e.kind = "bytes" THEN Bytes(e.len, v)
  ELSE Vector(e.count, e.len, v)

ValidRecord(type, c) ==
  [f \in FieldsOf(MarshalLayout(type)) |->
     ValidField(EntryOf(MarshalLayout(type), f), c + IndexOf(MarshalLayout(type), f))]

FixedRecords(type) == {ValidRecord(type, c) : c \in Contents} \cup {ZeroObject(type)}

ListFields ==
  <<"HistoricalRoots", "Eth1DataVotes", "Validators", "Balances",
    "PreviousEpochParticipation", "CurrentEpochParticipation">>

\* element j of a list
Element(f, c, j) == IF f = "HistoricalRoots" THEN Bytes(32, c * j) ELSE c * j

StateField(e, lens, c, k) ==
  IF e.kind = "object" THEN ValidRecord(ObjectType(e.field), c + k)
  ELSE IF e.kind = "opaque" THEN c + k
  ELSE IF e.kind = "offset"
  THEN [j \in 1..lens[IndexOf([i \in 1..6 |-> [field |-> ListFields[i]]], e.field)] |->
          Element(e.field, c, j)]
  ELSE IF e.kind = "uint64s" THEN Vector(e.count, 8, c + k)
  ELSE ValidField(e, c + k)

\* a BeaconState that MarshalSSZTo accepts, its six lists of the lengths lens
ValidState(lens, c) ==
  [f \in FieldsOf(StateMarshalLayout) |->
     StateField(EntryOf(StateMarshalLayout, f), lens, c, IndexOf(StateMarshalLayout, f))]

\* the lengths of the six lists: one list of any length next to five of a
\* common length
ListLens ==
  {[i \in 1..6 |-> IF i = k THEN n ELSE m] :
     k \in 1..6, n \in 0..MaxListLen, m \in 0..MaxListLen}

StateRecords ==
  {ValidState(lens, c) : lens \in ListLens, c \in Contents}
    \cup {[ValidState([i \in 1..6 |-> 0], 1) EXCEPT !["Fork"] = ZeroObject("Fork")],
          [ValidState([i \in 1..6 |-> 0], 1) EXCEPT !["JustificationBits"] = Bytes(2, 1)]}

\* states one of whose objects of this file is nil
StateRecordsWithNil ==
  {[ValidState([i \in 1..6 |-> 0], 1) EXCEPT ![f] = NilObject] :
     f \in {"Fork", "CurrentSyncCommittee", "NextSyncCommittee"}}

Types == FixedTypes \cup {"BeaconState"}

Records(type) == IF type = "BeaconState" THEN StateRecords ELSE FixedRecords(type)

Unset == "unset"

NoRoot == Rooted(ZeroChunk, Unset, <<>>)

\* a record on which nothing has been called yet
Fresh(type, r) ==
  [step |-> "fresh", type |-> type, rec |-> r,
   enc |-> Encoded(<<>>, Unset), size |-> 0 - 1,
   received |-> FALSE, dec |-> Decoded(NoRecord, Unset),
   roots |-> <<>>, pool |-> <<>>, longer |-> "none", longerRoot |-> NoRoot]

InitSSZ ==
  /\ AttestationsAtRest
  /\ container = UninitializedContainer
  /\ held = NothingHeld
  /\ lock = Unlocked
  /\ reader = IdleReader
  /\ writer = "idle"
  /\ \E type \in Types : \E r \in Records(type) : ssz = Fresh(type, r)

OnlySszChanges == UNCHANGED <<state, last, calls, container, held, lock, reader, writer>>

CallMarshalSSZ ==
  /\ ssz.step = "fresh"
  /\ ssz' = [ssz EXCEPT !.step = "encoded", !.enc = MarshalSSZ(ssz.type, ssz.rec),
                        !.rec = AfterMarshalSSZ(ssz.type, ssz.rec)]
  /\ OnlySszChanges

CallSizeSSZ ==
  /\ ssz.size < 0
  /\ ssz' = [ssz EXCEPT !.size = SizeSSZ(ssz.type, ssz.rec)]
  /\ OnlySszChanges

\* the positions of the six offsets in the fixed part
OffsetPositions == <<524464, 524540, 524552, 524556, 2687248, 2687252>>

RECURSIVE WithValueAt(_, _, _, _)
WithValueAt(buf, pos, at, v) ==
  IF buf = <<>> THEN <<>>
  ELSE IF pos = at THEN <<Segment(Head(buf).len, v)>> \o Tail(buf)
  ELSE <<Head(buf)>> \o WithValueAt(Tail(buf), pos + Head(buf).len, at, v)

\* the offsets a buffer from the network may carry
OffsetValues(size) == {0, 2787217, size, size + 1}

\* a buffer arrives that is the encoding of a state but for one offset
ReceiveBuffer ==
  /\ ssz.step = "encoded"
  /\ ssz.type = "BeaconState"
  /\ ssz.enc.err = "none"
  /\ \E i \in 1..6 : \E v \in OffsetValues(BufLen(ssz.enc.dst)) :
       ssz' = [ssz EXCEPT !.step = "received", !.received = TRUE,
                          !.enc.dst = WithValueAt(@, 0, OffsetPositions[i], v)]
  /\ ssz'.enc # ssz.enc
  /\ OnlySszChanges

\* a buffer arrives that lacks the last bytes of the encoding
ReceiveTruncated ==
  /\ ssz.step = "encoded"
  /\ ssz.type # "BeaconState"
  /\ ssz.enc.err = "none"
  /\ ssz' = [ssz EXCEPT !.step = "received", !.received = TRUE,
                        !.enc.dst = SubSeq(@, 1, Len(@) - 1)]
  /\ OnlySszChanges

CallUnmarshalSSZ ==
  /\ ssz.step \in {"encoded", "received"}
  /\ ssz.enc.err = "none"
  /\ ssz' = [ssz EXCEPT !.step = "decoded", !.dec = UnmarshalSSZ(ssz.type, ssz.enc.dst)]
  /\ OnlySszChanges

\* UnmarshalSSZ is called once more, with the same buffer, on the object the
\* first call filled
CallUnmarshalSSZAgain ==
  /\ ssz.step = "decoded"
  /\ ssz.dec.err = "none"
  /\ ssz' = [ssz EXCEPT !.step = "decoded again",
                        !.dec = UnmarshalSSZInto(ssz.type, ssz.dec.rec, ssz.enc.dst)]
  /\ OnlySszChanges

NextSSZ ==
  \/ CallMarshalSSZ
  \/ CallSizeSSZ
  \/ ReceiveBuffer
  \/ ReceiveTruncated
  \/ CallUnmarshalSSZ
  \/ CallUnmarshalSSZAgain

\* a state with a nil object is about to be encoded
InitSSZWithNil ==
  /\ AttestationsAtRest
  /\ container = UninitializedContainer
  /\ held = NothingHeld
  /\ lock = Unlocked
  /\ reader = IdleReader
  /\ writer = "idle"
  /\ \E r \in StateRecordsWithNil : ssz = Fresh("BeaconState", r)

SpecSSZ == (InitSSZ \/ InitSSZWithNil) /\ [][NextSSZ]_vars

\* the record with one more element, a zero, at the end of one of its lists
Longer(r, f) == [r EXCEPT ![f] = Append(@, Element(f, 0, 1))]

Result(h) == [root |-> h.root, err |-> h.err]

CallHashTreeRoot ==
  /\ Len(ssz.roots) < MaxHashCalls
  /\ ssz' = [ssz EXCEPT !.roots = Append(@, Result(HashTreeRoot(ssz.type, ssz.rec, ssz.pool))),
                        !.pool = HashTreeRoot(ssz.type, ssz.rec, ssz.pool).pool]
  /\ OnlySszChanges

CallHashTreeRootOfLonger ==
  /\ ssz.type = "BeaconState"
  /\ ssz.longer = "none"
  /\ \E i \in 1..6 :
       ssz' = [ssz EXCEPT !.longer = ListFields[i],
                 !.longerRoot = HashTreeRoot(ssz.type, Longer(ssz.rec, ListFields[i]), ssz.pool),
                 !.pool = HashTreeRoot(ssz.type, Longer(ssz.rec, ListFields[i]), ssz.pool).pool]
  /\ OnlySszChanges

NextHash ==
  \/ CallHashTreeRoot
  \/ CallHashTreeRootOfLonger

SpecHash == InitSSZ /\ [][NextHash]_vars

(***************************************************************************)
(* What the claims speak about, stated from the specification.             *)
(***************************************************************************)
Called == last.op # "none"

Accepted == Called /\ last.err = "none"

\* the call got as far as the event
Reached(ev) == \E k \in 1..Len(last.log) : last.log[k] = ev

\* the block root the state holds for a slot
RootOfSlot(st, slot) == st.blockRoots[(slot % SlotsPerHistoricalRoot) + 1]

TargetsCurrentEpoch(st, att) == att.data.target.epoch = st.slot \div SlotsPerEpoch

\* the justified checkpoint an attestation's source is held against
RelevantJustified(st, att) ==
  IF TargetsCurrentEpoch(st, att) THEN st.currentJustifiedCheckpoint
  ELSE st.previousJustifiedCheckpoint

\* the participation array an attestation's target epoch selects
SelectedParticipation(st, att) ==
  IF TargetsCurrentEpoch(st, att) THEN st.currentEpochParticipation
  ELSE st.previousEpochParticipation

OtherParticipation(st, att) ==
  IF TargetsCurrentEpoch(st, att) THEN st.previousEpochParticipation
  ELSE st.currentEpochParticipation

InIndices(i) == \E k \in 1..Len(last.indices) : last.indices[k] = i

FlagNumerator(f) ==
  IF f = TimelyHeadFlag THEN TimelyHeadNumerator
  ELSE IF f = TimelySourceFlag THEN TimelySourceNumerator
  ELSE TimelyTargetNumerator

\* the sum of a set of numbers
RECURSIVE SumSet(_)
SumSet(S) ==
  IF S = {} THEN 0
  ELSE LET x == CHOOSE y \in S : TRUE IN x + SumSet(S \ {x})

\* the sum of base reward times flag numerator over a set of
\* (validator index, flag) pairs
RECURSIVE SumWeights(_, _)
SumWeights(st, P) ==
  IF P = {} THEN 0
  ELSE LET p == CHOOSE q \in P : TRUE
       IN  BaseReward(st, p[1]).val * FlagNumerator(p[2]) + SumWeights(st, P \ {p})

\* C1: whenever ProcessAttestation or ProcessAttestationNoVerifySignature
\* returns an error, the state object reads as it did before the call.
C1_ErrorLeavesStateUnchanged ==
  (Called /\ last.err # "none") => state = last.pre

\* C2: an accepted attestation applied a second time, to the state its first
\* application produced, is accepted again, sets no bit, credits 0 and leaves
\* the whole state as it was.
C2_SecondApplicationIsNoOp ==
  last.repeated =>
    /\ last.err = "none"
    /\ last.proposerRewardNumerator = 0
    /\ last.proposerReward = 0
    /\ state = last.pre

\* C2 witness: the second application of an attestation whose first
\* application set bits and credited the proposer.
C2_Witness ==
  /\ last.repeated
  /\ last.err = "none"
  /\ \E i \in 1..NumValidators :
       SelectedParticipation(last.pre, last.att)[i] # 0
  /\ last.pre.balances # InitValidators

\* the flags the specification grants an attestation on a state
SpecFlags(st, att) ==
  LET d == att.data
      matchingHead == d.beaconBlockRoot = RootOfSlot(st, d.slot)
      matchingTarget == d.target.root = RootOfSlot(st, d.target.epoch * SlotsPerEpoch)
      matchingSource == d.source = RelevantJustified(st, att)
      sqrt == CHOOSE r \in 0..SlotsPerEpoch :
                r * r <= SlotsPerEpoch /\ (r + 1) * (r + 1) > SlotsPerEpoch
  IN  {f \in {TimelyHeadFlag, TimelySourceFlag, TimelyTargetFlag} :
         \/ /\ f = TimelyHeadFlag
            /\ matchingHead /\ matchingTarget
            /\ st.slot <= d.slot + MinAttestationInclusionDelay
         \/ /\ f = TimelySourceFlag
            /\ matchingSource
            /\ st.slot <= d.slot + sqrt
         \/ /\ f = TimelyTargetFlag
            /\ matchingTarget
            /\ st.slot <= d.slot + SlotsPerEpoch}

\* C3: the flags granted to an accepted attestation are exactly HEAD iff head
\* and target match within MIN_INCLUSION_DELAY, SOURCE iff the source matches
\* within floor(sqrt(SLOTS_PER_EPOCH)), TARGET iff the target matches within
\* SLOTS_PER_EPOCH.
C3_GrantedFlags ==
  Accepted => last.participatedFlags = SpecFlags(last.pre, last.att)

\* C3 witness: an accepted attestation with matching head but wrong target,
\* included at the minimal delay: it is granted the source flag alone.
C3_Witness ==
  /\ Accepted
  /\ last.att.data.beaconBlockRoot = RootOfSlot(last.pre, last.att.data.slot)
  /\ last.pre.slot = last.att.data.slot + MinAttestationInclusionDelay
  /\ last.participatedFlags = {TimelySourceFlag}

\* the byte that holds every flag of the set
FlagMask(flags) == SumSet(flags)

\* C4: after a successful application every attesting index of the selected
\* array holds its previous byte OR the granted flags, every other index its
\* previous byte.
C4_ParticipationBytes ==
  Accepted =>
    \A i \in 0..(NumValidators - 1) :
      At(SelectedParticipation(state, last.att), i) =
        IF InIndices(i)
        THEN BitOr(At(SelectedParticipation(last.pre, last.att), i),
                   FlagMask(last.participatedFlags))
        ELSE At(SelectedParticipation(last.pre, last.att), i)

\* C4 witness: an attesting index that held a flag before the call and has
\* gained another one, next to an index that does not attest.
C4_Witness ==
  /\ Accepted
  /\ \E i \in 0..(NumValidators - 1) :
       /\ InIndices(i)
       /\ At(SelectedParticipation(last.pre, last.att), i) # 0
       /\ At(SelectedParticipation(state, last.att), i)
            # At(SelectedParticipation(last.pre, last.att), i)
  /\ \E j \in 0..(NumValidators - 1) : ~InIndices(j)

\* the numerator the specification accumulates: base reward times flag
\* numerator over the pairs (attesting index, granted flag) not yet recorded
SpecNumerator(st, att, indices, flags) ==
  SumWeights(st, {p \in {indices[k] : k \in 1..Len(indices)} \X flags :
                    BitAnd(At(SelectedParticipation(st, att), p[1]), p[2]) = 0})

\* C5: on success the proposer's balance grows by exactly
\* floor(N / (REWARD_DENOMINATOR * PROPOSER_REWARD_QUOTIENT)), N being the sum
\* over the newly set (index, flag) pairs, and neither N nor the balance wraps.
C5_ProposerReward ==
  Accepted =>
    LET N == SpecNumerator(last.pre, last.att, last.indices, last.participatedFlags)
        p == last.pre.slot % NumValidators
    IN  /\ N < Uint64Mod
        /\ last.proposerRewardNumerator = N
        /\ At(state.balances, p) =
             At(last.pre.balances, p)
               + N \div (RewardDenominator * ProposerRewardQuotient)

\* C5 witness: an application in which one pair was set before and another
\* is new, and the proposer is credited.
C5_Witness ==
  /\ Accepted
  /\ last.proposerReward > 0
  /\ \E i \in 0..(NumValidators - 1), f \in last.participatedFlags :
       /\ InIndices(i)
       /\ BitAnd(At(SelectedParticipation(last.pre, last.att), i), f) # 0

\* C6: the source is held against the current-justified checkpoint when the
\* target epoch is the current epoch and against the previous-justified one
\* otherwise, the attestation is rejected iff they differ, and the array of
\* the same epoch is the one that is updated.
C6_SourceCheckpoint ==
  (Called /\ Reached("check:source")) =>
    /\ last.err = "SourceMismatch"
         <=> last.att.data.source # RelevantJustified(last.pre, last.att)
    /\ OtherParticipation(state, last.att) = OtherParticipation(last.pre, last.att)

\* C6 witness: a previous-epoch attestation whose source is the
\* previous-justified checkpoint is accepted and changes the previous-epoch
\* participation array.
C6_Witness ==
  /\ Accepted
  /\ ~TargetsCurrentEpoch(last.pre, last.att)
  /\ last.att.data.source = last.pre.previousJustifiedCheckpoint
  /\ last.att.data.source # last.pre.currentJustifiedCheckpoint
  /\ state.previousEpochParticipation # last.pre.previousEpochParticipation

\* C7: an attestation that passes the earlier checks passes the inclusion
\* window iff attested_slot + MIN_INCLUSION_DELAY <= state.slot <=
\* attested_slot + SLOTS_PER_EPOCH, both bounds included.
C7_InclusionWindow ==
  (Called /\ Reached("check:window")) =>
    (last.err # "InclusionWindowViolation"
       <=> /\ last.att.data.slot + MinAttestationInclusionDelay <= last.pre.slot
           /\ last.pre.slot <= last.att.data.slot + SlotsPerEpoch)

\* C7 witness: an attestation included exactly SLOTS_PER_EPOCH slots after
\* its slot is accepted.
C7_Witness ==
  /\ Accepted
  /\ last.pre.slot = last.att.data.slot + SlotsPerEpoch

\* committee_count_per_slot of the specification's collaborator
SpecCommitteeCount(st) ==
  LET n == (Len(st.validators) \div SlotsPerEpoch) \div TargetCommitteeSize
  IN  IF n < 1 THEN 1 ELSE IF n > MaxCommitteesPerSlot THEN MaxCommitteesPerSlot ELSE n

\* C8: an attestation that reaches the committee-index check is rejected by
\* it iff its committee index is at least the committee count per slot.
C8_CommitteeIndexBound ==
  (Called /\ Reached("check:committeeIndex")) =>
    (last.err = "CommitteeIndexOutOfRange"
       <=> last.att.data.committeeIndex >= SpecCommitteeCount(last.pre))

\* C8 witness: a committee index equal to the committee count is rejected.
C8_Witness ==
  /\ Called
  /\ ~last.att.isNil
  /\ last.att.data.committeeIndex = SpecCommitteeCount(last.pre)
  /\ last.err = "CommitteeIndexOutOfRange"

\* the validation checks in the order of the specification's pipeline
CheckOrder ==
  <<"check:epoch", "check:slotEpoch", "check:window", "check:committeeIndex",
    "check:bitfield", "check:indices", "check:source">>

CheckError ==
  <<"TargetEpochMismatch", "SlotEpochMismatch", "InclusionWindowViolation",
    "CommitteeIndexOutOfRange", "BitfieldLengthMismatch", "InvalidIndices",
    "SourceMismatch">>

\* whether an attestation violates the k-th check of the specification
Violates(st, att, k) ==
  LET d == att.data
      committee == BeaconCommitteeFromState(st, d.slot, d.committeeIndex).val
  IN  CASE k = 1 -> d.target.epoch \notin
                      {st.slot \div SlotsPerEpoch,
                       IF st.slot \div SlotsPerEpoch = 0 THEN 0
                       ELSE st.slot \div SlotsPerEpoch - 1}
        [] k = 2 -> d.target.epoch # d.slot \div SlotsPerEpoch
        [] k = 3 -> ~(/\ d.slot + MinAttestationInclusionDelay <= st.slot
                      /\ st.slot <= d.slot + SlotsPerEpoch)
        [] k = 4 -> d.committeeIndex >= SpecCommitteeCount(st)
        [] k = 5 -> Len(att.aggregationBits) # Len(committee)
        [] k = 6 -> \A b \in 1..Len(att.aggregationBits) : ~att.aggregationBits[b]
        [] k = 7 -> d.source # RelevantJustified(st, att)

ViolatedChecks(st, att) == {k \in 1..Len(CheckOrder) : Violates(st, att, k)}

FirstViolated(st, att) ==
  CHOOSE k \in ViolatedChecks(st, att) : \A j \in ViolatedChecks(st, att) : k <= j

\* C9: the checks run in the order epoch membership, target/slot consistency,
\* inclusion window, committee index, bitfield length, attesting indices,
\* source checkpoint; the error is the one of the earliest violated check and
\* no later check is evaluated.
C9_CheckOrder ==
  (Called /\ ~last.att.isNil) =>
    IF ViolatedChecks(last.pre, last.att) = {}
    THEN \A k \in 1..Len(CheckOrder) : Reached(CheckOrder[k])
    ELSE LET k == FirstViolated(last.pre, last.att)
         IN  /\ last.err = CheckError[k]
             /\ last.log = <<"check:nil">> \o SubSeq(CheckOrder, 1, k)

\* C9 witness: an attestation that violates the epoch-membership, the
\* committee-index and the source check is rejected for its target epoch.
C9_Witness ==
  /\ Called
  /\ ~last.att.isNil
  /\ {1, 4, 7} \subseteq ViolatedChecks(last.pre, last.att)
  /\ last.err = "TargetEpochMismatch"

\* the checks and lookups that can fail before the participation update
PreUpdateEvents ==
  {"check:nil", "check:epoch", "check:slotEpoch", "check:window",
   "check:committeeIndex", "check:bitfield", "check:indices", "check:source",
   "lookup:blockRoot", "lookup:blockRootAtSlot", "lookup:attestingIndices",
   "lookup:baseReward"}

StateWrites == {"write:participation", "write:balance"}

\* C10: ProcessAttestationNoVerifySignature writes nothing to the state
\* before the last check or lookup that precedes the participation update,
\* and a call that fails in one of them leaves every state field unchanged.
C10_NoWriteBeforeChecks ==
  Called =>
    /\ \A j, k \in 1..Len(last.log) :
         (j < k /\ last.log[j] \in StateWrites) => last.log[k] \notin PreUpdateEvents
    /\ (last.err # "none" /\ last.log[Len(last.log)] \in PreUpdateEvents)
         => state = last.pre

\* C10 witness: an accepted previous-epoch attestation with two attesting
\* indices that both gain a flag: the second base-reward lookup comes after
\* the first index's bits were set on the copy.
C10_Witness ==
  /\ Accepted
  /\ ~TargetsCurrentEpoch(last.pre, last.att)
  /\ Len(last.indices) = 2
  /\ \A k \in 1..2 :
       At(state.previousEpochParticipation, last.indices[k])
         # At(last.pre.previousEpochParticipation, last.indices[k])

\* the result of ProcessAttestationNoVerifySignature on the state the last
\* call was given
NoVerifyOnPre == ProcessAttestationNoVerifySignature(last.pre, last.att)

\* C12: after any call, successful or failed, the state object the caller
\* passed in reads on every field as it did before the call.
C12_GivenStateNeverMutated ==
  last.op = "ProcessAttestation" => state = last.pre

\* C13: ProcessAttestation succeeds iff ProcessAttestationNoVerifySignature
\* succeeds on the same state and attestation and the aggregate signature
\* verifies on that state, and then both leave the same state.
C13_VerifyDiffersOnlyInSignature ==
  last.op = "ProcessAttestation" =>
    /\ (last.err = "none") <=>
         (/\ NoVerifyOnPre.err = "none"
          /\ VerifyAttestationSignature(last.pre, last.att) = "none")
    /\ last.err = "none" => state = NoVerifyOnPre.state

\* C13 witness: a ProcessAttestation call on an attestation the skipping
\* pipeline accepts whose signature does not verify, and which is rejected.
C13_Witness ==
  /\ last.op = "ProcessAttestation"
  /\ NoVerifyOnPre.err = "none"
  /\ last.att.signature = "invalid"
  /\ last.err = "InvalidSignature"

\* every bit of the bytes of old is a bit of the byte of new at its index
BitsKept(old, new) ==
  /\ Len(new) = Len(old)
  /\ \A i \in 1..Len(old) : BitAnd(old[i], new[i]) = old[i]

\* C14: over any sequence of applications no participation bit that is set
\* in the current- or previous-epoch array is cleared again.
C14_BitsNeverCleared ==
  [][/\ BitsKept(state.currentEpochParticipation,
                 state'.currentEpochParticipation)
     /\ BitsKept(state.previousEpochParticipation,
                 state'.previousEpochParticipation)]_vars

\* C14 witness: a second application has added bits to a byte that held
\* bits already, in an array that held bits before.
C14_Witness ==
  /\ calls = 2
  /\ Accepted
  /\ \E i \in 0..(NumValidators - 1) :
       /\ At(SelectedParticipation(last.pre, last.att), i) # 0
       /\ At(SelectedParticipation(state, last.att), i)
            # At(SelectedParticipation(last.pre, last.att), i)

\* C15: a successful application changes only the bytes at attesting indices
\* of the participation array the target epoch selects and the balance of
\* the block proposer.
C15_Frame ==
  Accepted =>
    /\ OtherParticipation(state, last.att) = OtherParticipation(last.pre, last.att)
    /\ \A i \in 0..(NumValidators - 1) :
         /\ ~InIndices(i) =>
              At(SelectedParticipation(state, last.att), i)
                = At(SelectedParticipation(last.pre, last.att), i)
         /\ i # last.pre.slot % NumValidators =>
              At(state.balances, i) = At(last.pre.balances, i)
    /\ Len(state.balances) = Len(last.pre.balances)
    /\ state.slot = last.pre.slot
    /\ state.validators = last.pre.validators
    /\ state.blockRoots = last.pre.blockRoots
    /\ state.previousJustifiedCheckpoint = last.pre.previousJustifiedCheckpoint
    /\ state.currentJustifiedCheckpoint = last.pre.currentJustifiedCheckpoint
    /\ state.finalizedCheckpoint = last.pre.finalizedCheckpoint

\* C15 witness: a successful application that has changed a participation
\* byte and the proposer's balance, the proposer not attesting.
C15_Witness ==
  /\ Accepted
  /\ SelectedParticipation(state, last.att) # SelectedParticipation(last.pre, last.att)
  /\ state.balances # last.pre.balances
  /\ ~InIndices(last.pre.slot % NumValidators)

\* C16: the validator list, the balance list and both participation arrays
\* have the same length after any sequence of calls.
C16_ParallelArrays ==
  /\ Len(state.balances) = Len(state.validators)
  /\ Len(state.currentEpochParticipation) = Len(state.validators)
  /\ Len(state.previousEpochParticipation) = Len(state.validators)

\* C16 witness: both kinds of call have been made on the state, the last
\* one rejected after an accepted one that wrote to the state.
C16_Witness ==
  /\ calls = 2
  /\ last.err # "none"
  /\ last.pre # InitState(last.pre.slot)

\* the error and the state the single-attestation function of the last block
\* call leaves on a state
SingleOf(st, att) ==
  IF last.op = "ProcessAttestations" THEN ProcessAttestation(st, att)
  ELSE ProcessAttestationNoVerifySignature(st, att)

\* the states <<S0, ..., Sk>>: S0 is st, and Sj is what attestation j of the
\* list leaves when it is applied to S(j-1)
RECURSIVE StatesAfter(_, _, _)
StatesAfter(st, atts, k) ==
  IF k = 0 THEN <<st>>
  ELSE LET before == StatesAfter(st, atts, k - 1)
       IN  Append(before, SingleOf(before[k], atts[k]).state)

\* the indices (from 0) of the attestations that fail on the state the ones
\* before them left
FailingIndices(states, atts) ==
  {k \in 0..(Len(atts) - 1) : SingleOf(states[k + 1], atts[k + 1]).err # "none"}

\* the attestations were handed over in the order 0, 1, ... up to index n - 1,
\* each with the state the one before it left
AppliedInOrder(states, n) ==
  /\ Len(last.applied) = n
  /\ \A j \in 1..n :
       /\ last.applied[j].idx = j - 1
       /\ last.applied[j].pre = states[j]

\* C11: the attestations of a block are applied one at a time in their listed
\* order, each to the state the previous one left; if the attestation at
\* index k is the first to fail, the error names k, no state is returned and
\* no attestation after k is applied; if none fails, all are applied and the
\* state they left is returned.
C11_BlockOrderAndFirstFailure ==
  (last.op \in {"ProcessAttestations", "ProcessAttestationsNoVerifySignature"}
   /\ ~last.block.isNil) =>
    LET atts == last.block.attestations
        states == StatesAfter(last.pre, atts, Len(atts))
        failing == FailingIndices(states, atts)
    IN  IF failing = {}
        THEN /\ last.err = "none"
             /\ last.ret = "state"
             /\ AppliedInOrder(states, Len(atts))
             /\ state = states[Len(atts) + 1]
        ELSE /\ last.err # "none"
             /\ last.index \in failing
             /\ \A j \in failing : last.index <= j
             /\ last.ret = "nil"
             /\ AppliedInOrder(states, last.index + 1)

\* C11 witness: a block whose first attestation is accepted and has changed
\* the state, whose second fails, and which holds a third.
C11_Witness ==
  /\ last.op = "ProcessAttestations"
  /\ Len(last.block.attestations) = 3
  /\ last.err # "none"
  /\ last.index = 1
  /\ Len(last.applied) = 2
  /\ last.applied[2].pre # last.pre

\* C17: no accessor hands out an alias of internal storage: a change the
\* caller makes to a value it was handed changes nothing in the container
\* (so nothing a later accessor call returns), and a write of a mutator
\* changes nothing the holder reads through a value handed out earlier.
C17_NoAliasHandedOut ==
  [][/\ (/\ held'.op = held.op
         /\ held'.kind = held.kind
         /\ (ModifyCopy \/ ModifyThroughPointer)) => container' = container
     /\ WriteState => ReadThrough(container', held') = ReadThrough(container, held)]_vars

\* C18: an accessor reads fields of the state only while it holds the read
\* lock: no read of a reader falls inside the critical section of a mutator.
C18_ReadsOnlyUnderReadLock == ~reader.raced

\* the reader is between two calls of the function handed to
\* ReadFromEveryValidator
BetweenCallbacks ==
  /\ reader.op = "ReadFromEveryValidator"
  /\ reader.pc > 1
  /\ reader.pc <= Len(StepsOf(reader.op, ReaderSees))
  /\ StepsOf(reader.op, ReaderSees)[reader.pc - 1] = "callback"
  /\ StepsOf(reader.op, ReaderSees)[reader.pc] = "callback"

\* C19: between the first and the last callback of one ReadFromEveryValidator
\* call no mutator holds the exclusive lock.
C19_LockHeldAcrossCallbacks == BetweenCallbacks => ~lock.writer

\* C20: an indexed accessor called on an initialized container with an index
\* that is not below the number of entries of its list (a nil or empty list
\* included) returns an out-of-range error.
C20_IndexOutOfRange ==
  (/\ held.op \in IndexedAccessors
   /\ container.hasInner
   /\ held.idx >= Len(IndexedList(held.op).items))
    => held.err = "IndexOutOfRange"

\* C21: an accessor called on a container without an inner state returns
\* the uninitialized-state error, never an ordinary value.
C21_UninitializedStateError ==
  (held.op # "none" /\ ~container.hasInner) => held.err = "ErrNilInnerState"

\* the call of UnmarshalSSZ on the buffer MarshalSSZ wrote has returned
RoundTripped ==
  /\ ssz.step = "decoded"
  /\ ~ssz.received
  /\ ssz.enc.err = "none"

\* C22: decoding the encoding of a record that MarshalSSZ accepts into a new
\* object succeeds and yields the record, field for field.
C22_RoundTrip == RoundTripped => (ssz.dec.err = "none" /\ ssz.dec.rec = ssz.rec)

C22_Witness ==
  /\ RoundTripped
  /\ ssz.type = "BeaconState"
  /\ \A i \in 1..6 : Len(ssz.rec[ListFields[i]]) = MaxListLen
  /\ ssz.dec.rec = ssz.rec

\* MarshalSSZ and SizeSSZ have both returned for the record
EncodedAndSized ==
  /\ ssz.step = "encoded"
  /\ ssz.enc.err = "none"
  /\ ssz.size >= 0

\* the size of a BeaconState as the specification writes it
SpecStateSize(r) ==
  2787217 + 32 * Len(r.HistoricalRoots) + 72 * Len(r.Eth1DataVotes)
          + 121 * Len(r.Validators) + 8 * Len(r.Balances)
          + Len(r.PreviousEpochParticipation) + Len(r.CurrentEpochParticipation)

\* C23: SizeSSZ of a record that MarshalSSZ encodes is the length of the
\* encoding; for a BeaconState it is the fixed part of 2787217 bytes and the
\* bytes of the six lists.
C23_SizeIsEncodedLength ==
  EncodedAndSized =>
    /\ ssz.size = BufLen(ssz.enc.dst)
    /\ ssz.type = "BeaconState" => BufLen(ssz.enc.dst) = SpecStateSize(ssz.rec)

C23_Witness ==
  /\ EncodedAndSized
  /\ ssz.type = "BeaconState"
  /\ Len(ssz.rec.Validators) = MaxListLen
  /\ Len(ssz.rec.Balances) = 0
  /\ ssz.size > 2787217

\* the fields of a BeaconState in the order of their declaration with the
\* bytes each takes in the fixed part, 4 for a list
SpecFixedPart ==
  <<M("GenesisTime", "fixed", 1, 8), M("GenesisValidatorsRoot", "fixed", 1, 32),
    M("Slot", "fixed", 1, 8), M("Fork", "fixed", 1, 16),
    M("LatestBlockHeader", "fixed", 1, 112), M("BlockRoots", "fixed", 1, 262144),
    M("StateRoots", "fixed", 1, 262144), M("HistoricalRoots", "list", 1, 32),
    M("Eth1Data", "fixed", 1, 72), M("Eth1DataVotes", "list", 1, 72),
    M("Eth1DepositIndex", "fixed", 1, 8), M("Validators", "list", 1, 121),
    M("Balances", "list", 1, 8), M("RandaoMixes", "fixed", 1, 2097152),
    M("Slashings", "fixed", 1, 65536), M("PreviousEpochParticipation", "list", 1, 1),
    M("CurrentEpochParticipation", "list", 1, 1), M("JustificationBits", "fixed", 1, 1),
    M("PreviousJustifiedCheckpoint", "fixed", 1, 40),
    M("CurrentJustifiedCheckpoint", "fixed", 1, 40),
    M("FinalizedCheckpoint", "fixed", 1, 40), M("CurrentSyncCommittee", "fixed", 1, 49920),
    M("NextSyncCommittee", "fixed", 1, 49920)>>

\* where field k starts in the fixed part
RECURSIVE SpecFixedStart(_)
SpecFixedStart(k) ==
  IF k = 1 THEN 0
  ELSE SpecFixedStart(k - 1)
         + (IF SpecFixedPart[k - 1].kind = "list" THEN 4 ELSE SpecFixedPart[k - 1].len)

\* where the data of list i starts: after the fixed part and the lists
\* before it
RECURSIVE SpecListStart(_, _)
SpecListStart(r, i) ==
  IF i = 1 THEN 2787217
  ELSE SpecListStart(r, i - 1)
         + Len(r[ListFields[i - 1]]) * EntryOf(SpecFixedPart, ListFields[i - 1]).len

\* the runs MarshalSSZTo wrote for the elements of a list
ElementRuns(r, f) ==
  [j \in 1..Len(r[f]) |->
     Segment(EntryOf(SpecFixedPart, f).len,
             IF f = "HistoricalRoots" THEN r[f][j].val ELSE r[f][j])]

\* the value of a field as the fixed part holds it
FixedValue(r, f) ==
  IF f \in {"LatestBlockHeader", "Eth1Data", "PreviousJustifiedCheckpoint",
            "CurrentJustifiedCheckpoint", "FinalizedCheckpoint"} THEN r[f]
  ELSE r[f].val

StateEncodedOk ==
  /\ ssz.step = "encoded"
  /\ ssz.type = "BeaconState"
  /\ ssz.enc.err = "none"

\* C24: the encoding of a BeaconState is its fixed part in declaration order
\* with a 4-byte offset in the place of every list, then the data of the
\* lists in declaration order; every offset is the position at which the
\* data of its list starts, the first one 2787217.
C24_Layout ==
  StateEncodedOk =>
    /\ \A k \in 1..Len(SpecFixedPart) :
         LET e == SpecFixedPart[k]
             from == SpecFixedStart(k)
         IN IF e.kind = "list"
            THEN LET i == IndexOf([n \in 1..6 |-> [field |-> ListFields[n]]], e.field)
                     start == ReadValue(ssz.enc.dst, from, from + 4)
                 IN /\ start = SpecListStart(ssz.rec, i)
                    /\ Slice(ssz.enc.dst, start, start + Len(ssz.rec[e.field]) * e.len)
                         = ElementRuns(ssz.rec, e.field)
            ELSE IF e.field \in {"Fork", "CurrentSyncCommittee", "NextSyncCommittee"}
            THEN Slice(ssz.enc.dst, from, from + e.len)
                   = MarshalFixedTo(ObjectType(e.field), ssz.rec[e.field], <<>>).dst
            ELSE ReadValue(ssz.enc.dst, from, from + e.len) = FixedValue(ssz.rec, e.field)
    /\ SpecFixedStart(Len(SpecFixedPart)) + 49920 = 2787217

C24_Witness ==
  /\ StateEncodedOk
  /\ \A i \in 1..6 : Len(ssz.rec[ListFields[i]]) = MaxListLen
  /\ ReadValue(ssz.enc.dst, 2687252, 2687256) > ReadValue(ssz.enc.dst, 524464, 524468)

\* UnmarshalSSZ has returned for a buffer that holds a whole fixed part
StateDecoded ==
  /\ ssz.step = "decoded"
  /\ ssz.type = "BeaconState"

\* the six offsets of the buffer in the order of the lists
OffsetsIn(buf) == [i \in 1..6 |-> ReadValue(buf, OffsetPositions[i], OffsetPositions[i] + 4)]

\* an offset lies past the end of the buffer or before the offset of the
\* list before it
BadOffsets(buf) ==
  \E i \in 1..6 :
    \/ OffsetsIn(buf)[i] > BufLen(buf)
    \/ i > 1 /\ OffsetsIn(buf)[i] < OffsetsIn(buf)[i - 1]

\* C25: decoding a BeaconState fails with the offset error exactly when one
\* of the six offsets is past the end of the buffer or smaller than the
\* offset before it.
C25_OffsetValidation ==
  StateDecoded => (ssz.dec.err = "ErrOffset" <=> BadOffsets(ssz.enc.dst))

C25_Witness ==
  /\ StateDecoded
  /\ ssz.received
  /\ ssz.dec.err = "ErrOffset"
  /\ \A i \in 1..6 : OffsetsIn(ssz.enc.dst)[i] <= BufLen(ssz.enc.dst)

C25_WitnessAccepted ==
  /\ StateDecoded
  /\ ssz.received
  /\ ~BadOffsets(ssz.enc.dst)
  /\ ssz.dec.err # "ErrOffset"

\* C28: in a BeaconState that UnmarshalSSZ accepts the validators, the
\* balances and the two participation lists have the same length.
C28_DecodedParallelArrays ==
  (StateDecoded /\ ssz.dec.err = "none") =>
    /\ Len(ssz.dec.rec.Balances) = Len(ssz.dec.rec.Validators)
    /\ Len(ssz.dec.rec.PreviousEpochParticipation) = Len(ssz.dec.rec.Validators)
    /\ Len(ssz.dec.rec.CurrentEpochParticipation) = Len(ssz.dec.rec.Validators)

\* HashTreeRoot has returned a root for the record and for the record with
\* one more zero element in one of its lists
BothRooted ==
  /\ ssz.longer # "none"
  /\ ssz.longerRoot.err = "none"
  /\ Len(ssz.roots) > 0
  /\ ssz.roots[1].err = "none"

\* C26: every list of a BeaconState is merkleized with its length mixed in:
\* a list and the same list with one more element, a zero, have different
\* roots, and so have the two states.
C26_LengthMixedIn == BothRooted => ssz.longerRoot.root # ssz.roots[1].root

AllFlags == TimelyHeadFlag + TimelySourceFlag + TimelyTargetFlag

MatchingTargetRoot(st, att) ==
  att.data.target.root = RootOfSlot(st, att.data.target.epoch * SlotsPerEpoch)

MatchingHeadRoot(st, att) ==
  att.data.beaconBlockRoot = RootOfSlot(st, att.data.slot)

\* an accepted attestation of the current epoch, right in source, target and
\* head, included at the minimal delay
FullyCorrect ==
  /\ Accepted
  /\ TargetsCurrentEpoch(last.pre, last.att)
  /\ last.att.data.source = last.pre.currentJustifiedCheckpoint
  /\ MatchingTargetRoot(last.pre, last.att)
  /\ MatchingHeadRoot(last.pre, last.att)
  /\ last.pre.slot = last.att.data.slot + MinAttestationInclusionDelay

\* no attesting index held any of the three flags before the call
NoFlagBefore ==
  \A i \in 0..(NumValidators - 1) :
    InIndices(i) =>
      BitAnd(At(SelectedParticipation(last.pre, last.att), i), AllFlags) = 0

ProposerBalance(st) == At(st.balances, last.pre.slot % NumValidators)

\* C29: after an accepted attestation of the current epoch with matching
\* source, target and head, included at attested slot + MIN_INCLUSION_DELAY,
\* every attesting index has all three flags in the current-epoch array and,
\* if none of those flags was set before, the proposer's balance has grown.
C29_FullParticipation ==
  FullyCorrect =>
    /\ \A i \in 0..(NumValidators - 1) :
         InIndices(i) =>
           BitAnd(At(state.currentEpochParticipation, i), AllFlags) = AllFlags
    /\ NoFlagBefore => ProposerBalance(state) > ProposerBalance(last.pre)

\* C29 witness: such an attestation on indices that held no flag, the
\* proposer credited.
C29_Witness ==
  /\ FullyCorrect
  /\ NoFlagBefore
  /\ Len(last.indices) > 0
  /\ \A i \in 0..(NumValidators - 1) :
       InIndices(i) => At(state.currentEpochParticipation, i) = AllFlags
  /\ ProposerBalance(state) > ProposerBalance(last.pre)

\* an accepted attestation whose target root is not the state's block root
\* at the start of the target epoch
WrongTarget == Accepted /\ ~MatchingTargetRoot(last.pre, last.att)

\* the attestation of the last call with the matching target root
WithMatchingTarget(st, att) ==
  [att EXCEPT !.data.target.root = RootOfSlot(st, att.data.target.epoch * SlotsPerEpoch)]

\* the reward of the same attestation with a matching target root
RewardWithMatchingTarget ==
  ProcessAttestationNoVerifySignature(
    last.pre, WithMatchingTarget(last.pre, last.att)).proposerReward

Gained(i, flag) ==
  /\ BitAnd(At(SelectedParticipation(state, last.att), i), flag) = flag
  /\ BitAnd(At(SelectedParticipation(last.pre, last.att), i), flag) = 0

WithinSourceDelay ==
  last.pre.slot <= last.att.data.slot + IntegerSquareRoot(SlotsPerEpoch)

WrongTargetFlags ==
  \A i \in 0..(NumValidators - 1) :
    InIndices(i) =>
      /\ ~Gained(i, TimelyTargetFlag)
      /\ ~Gained(i, TimelyHeadFlag)
      /\ WithinSourceDelay =>
           HasValidatorFlag(At(SelectedParticipation(state, last.att), i), TimelySourceFlag)

\* C30: an accepted attestation with the wrong target root gives no attesting
\* index the TARGET or the HEAD flag, gives every attesting index the SOURCE
\* flag when included within floor(sqrt(SLOTS_PER_EPOCH)) slots, and earns
\* the proposer less than the same attestation with the matching target root.
C30_WrongTargetRoot ==
  WrongTarget =>
    /\ WrongTargetFlags
    /\ last.proposerReward < RewardWithMatchingTarget

\* C30 as amended: the reward is smaller when no attesting index held a flag
\* before, and never larger.
C30_WrongTargetRootFresh ==
  WrongTarget =>
    /\ WrongTargetFlags
    /\ last.proposerReward <= RewardWithMatchingTarget
    /\ NoFlagBefore => last.proposerReward < RewardWithMatchingTarget

\* C30 witness: the wrong target root on indices without flags, included at
\* the minimal delay: SOURCE alone is gained and the reward is smaller.
C30_Witness ==
  /\ WrongTarget
  /\ NoFlagBefore
  /\ last.pre.slot = last.att.data.slot + MinAttestationInclusionDelay
  /\ MatchingHeadRoot(last.pre, last.att)
  /\ \E i \in 0..(NumValidators - 1) : InIndices(i) /\ Gained(i, TimelySourceFlag)
  /\ last.proposerReward < RewardWithMatchingTarget

\* C32: whenever ProcessAttestation returns an error, the state it returns is
\* nil, whatever step failed, a failed signature verification included.
C32_ErrorReturnsNilState ==
  (last.op = "ProcessAttestation" /\ last.err # "none") => last.ret = "nil"

\* C33: ValidatorAtIndex, ValidatorAtIndexReadOnly and PubkeyAtIndex never
\* index the registry out of bounds, in any interleaving with a writer that
\* replaces the registry under the exclusive lock.
C33_NoOutOfBoundsIndexing ==
  reader.op \in {"ValidatorAtIndex", "ValidatorAtIndexReadOnly", "PubkeyAtIndex"}
    => ~reader.oob

\* C34: UnmarshalSSZ accepts only canonical encodings of a BeaconState: the
\* first offset of an accepted buffer is 2787217 and MarshalSSZ of the record
\* it decodes to gives back a buffer of the same length, no byte being ignored
\* or read twice.
C34_OnlyCanonicalAccepted ==
  (StateDecoded /\ ssz.dec.err = "none") =>
    /\ ReadOffsets(ssz.enc.dst).o7 = 2787217
    /\ MarshalSSZ("BeaconState", ssz.dec.rec).err = "none"
    /\ BufLen(MarshalSSZ("BeaconState", ssz.dec.rec).dst) = BufLen(ssz.enc.dst)

\* C35: what UnmarshalSSZ leaves in its receiver depends on the buffer only:
\* called on an object that already holds a decoded record it leaves the
\* record it leaves in a new object.
C35_DecodeDependsOnlyOnBuffer ==
  ssz.step = "decoded again" => ssz.dec = UnmarshalSSZ(ssz.type, ssz.enc.dst)

\* C36: MarshalSSZ of a BeaconState leaves every field of the state as it
\* was, whether it succeeds or fails, a state with nil objects included.
C36_EncodingIsReadOnly ==
  [][(ssz.step = "fresh" /\ ssz'.step = "encoded") => ssz'.rec = ssz.rec]_vars

\* the attestations of the inputs that are accepted on an initial state
AcceptedAtStart ==
  [st \in {InitState(slot) : slot \in InitSlots} |->
     {b \in VerifiedAttestations(st) :
        ProcessAttestationNoVerifySignature(st, b).err = "none"}]

\* the first call on an initial state has accepted its attestation
FirstApplied ==
  /\ calls = 1
  /\ Accepted
  /\ last.pre \in DOMAIN AcceptedAtStart

\* the call that processes b on the state that processing a on st has left
Second(st, a, b) ==
  ProcessAttestationNoVerifySignature(
    ProcessAttestationNoVerifySignature(st, a).state, b)

BothOrdersAccepted(st, a, b) ==
  /\ Second(st, a, b).err = "none"
  /\ Second(st, b, a).err = "none"

\* what the proposer has been credited once a, then b, have been processed
Credited(st, a, b) == ProposerBalance(Second(st, a, b).state) - ProposerBalance(st)

\* the sum of the two proposer-reward numerators, a processed before b
Numerators(st, a, b) ==
  ProcessAttestationNoVerifySignature(st, a).proposerRewardNumerator
    + Second(st, a, b).proposerRewardNumerator

\* C37 as stated: for two attestations each accepted on a state, the total
\* credited to the proposer once both are processed is the same in either
\* order.
C37_ProposerCreditCommutes ==
  FirstApplied =>
    \A b \in AcceptedAtStart[last.pre] :
      BothOrdersAccepted(last.pre, last.att, b) =>
        Credited(last.pre, last.att, b) = Credited(last.pre, b, last.att)

\* C37, amended: for two attestations each accepted on a state, the sum of
\* the two proposer-reward numerators is the same in either order, and the
\* totals credited to the proposer in the two orders differ by at most one,
\* the rounding of the two divisions.
C37_ProposerCreditWithinRounding ==
  FirstApplied =>
    \A b \in AcceptedAtStart[last.pre] :
      BothOrdersAccepted(last.pre, last.att, b) =>
        /\ Numerators(last.pre, last.att, b) = Numerators(last.pre, b, last.att)
        /\ Credited(last.pre, last.att, b) - Credited(last.pre, b, last.att) \in {0 - 1, 0, 1}

\* the two attestations have an attesting index in common and are granted
\* different flags
OverlappingWithOtherFlags(st, a, b) ==
  /\ \E i \in 1..Len(last.indices) :
       \E j \in 1..Len(ProcessAttestationNoVerifySignature(st, b).indices) :
         last.indices[i] = ProcessAttestationNoVerifySignature(st, b).indices[j]
  /\ last.participatedFlags # ProcessAttestationNoVerifySignature(st, b).participatedFlags

C37_Witness ==
  /\ FirstApplied
  /\ \E b \in AcceptedAtStart[last.pre] :
       /\ BothOrdersAccepted(last.pre, last.att, b)
       /\ OverlappingWithOtherFlags(last.pre, last.att, b)
       /\ Credited(last.pre, last.att, b) # Credited(last.pre, b, last.att)

\* the call `last` records, made on the initial state instead
OnInitialState ==
  IF last.op = "ProcessAttestation"
  THEN ProcessAttestation(InitState(last.pre.slot), last.att)
  ELSE ProcessAttestationNoVerifySignature(InitState(last.pre.slot), last.att)

\* the second call follows a call that accepted another attestation
SecondApplied ==
  /\ calls = 2
  /\ last.op \in {"ProcessAttestation", "ProcessAttestationNoVerifySignature"}

\* the two participation arrays
Participation(st) == <<st.currentEpochParticipation, st.previousEpochParticipation>>

\* C38: acceptance and flag updates commute: whether an attestation is
\* accepted, and the error it is rejected with, does not depend on the
\* attestation applied before it, and for two accepted attestations the
\* current and previous participation arrays are the same in either order.
C38_AcceptanceAndFlagsCommute ==
  /\ SecondApplied => last.err = OnInitialState.err
  /\ FirstApplied =>
       \A b \in AcceptedAtStart[last.pre] :
         /\ BothOrdersAccepted(last.pre, last.att, b)
         /\ Participation(Second(last.pre, last.att, b).state)
              = Participation(Second(last.pre, b, last.att).state)

\* an attestation accepted first, and another one accepted on the initial
\* state that shares an attesting index with it, is granted other flags and
\* adds flags to the arrays the first has left
C38_Witness ==
  /\ FirstApplied
  /\ \E b \in AcceptedAtStart[last.pre] :
       /\ OverlappingWithOtherFlags(last.pre, last.att, b)
       /\ Participation(Second(last.pre, last.att, b).state) # Participation(state)
       /\ Participation(Second(last.pre, last.att, b).state)
            # Participation(ProcessAttestationNoVerifySignature(last.pre, b).state)

\* C39: for every accepted attestation the head flag is granted only when
\* the state's slot is the attested slot plus MIN_INCLUSION_DELAY exactly, and
\* only together with the target flag; the state's slot is never past the
\* attested slot plus SLOTS_PER_EPOCH, so that the target flag is granted
\* exactly when the target root matches.
C39_HeadAndTargetConditions ==
  Accepted =>
    /\ TimelyHeadFlag \in last.participatedFlags =>
         /\ last.pre.slot = last.att.data.slot + MinAttestationInclusionDelay
         /\ TimelyTargetFlag \in last.participatedFlags
    /\ last.pre.slot <= last.att.data.slot + SlotsPerEpoch
    /\ TimelyTargetFlag \in last.participatedFlags <=> MatchingTargetRoot(last.pre, last.att)

\* an accepted attestation is granted the head flag
C39_Witness ==
  /\ Accepted
  /\ TimelyHeadFlag \in last.participatedFlags

\* a method of ReadOnlyValidator has been called on a wrapper that wraps no
\* validator: the one ValidatorAtIndexReadOnly hands out for a nil registry
CalledOnEmptyView ==
  /\ held.op \in ReadOnlyValidatorAccessors
  /\ container.validators.isNil

\* C40: every method of ReadOnlyValidator called on a wrapper that wraps no
\* validator returns the zero value of its type and does not fail.
C40_AccessorsSafeOnEmptyView ==
  CalledOnEmptyView =>
    /\ held.err # "NilPointerDereference"
    /\ held.data = ZeroValue(held.op)

====
